---- MODULE Spec2Model ----
(***************************************************************************)
(* A model of the BSP tree of bsp.py (BSPTree, BSPNode, BSPLeaf, BSPPortal) *)
(* as it is driven by the editor loop of lumberjack.py.                     *)
(*                                                                          *)
(* Python objects live in `heap`, a function from object identities         *)
(* (positive integers) to records; a reference is an identity and None is   *)
(* 0.  Objects that nothing reachable from the tree refers to are dropped   *)
(* from the heap (reference counting and gc.collect()), and a new object    *)
(* takes the smallest identity that no live object has.                     *)
(***************************************************************************)
EXTENDS Integers, Sequences, FiniteSets, TLC

\* ------------------------------------------------------------------ bounds
\* Largest world the constructor is called with.
MaxWidth == 3
MaxHeight == 2
\* Cap on BSPLeaf._numLeaves, the count of leaves ever instantiated.
MaxNumLeaves == 6
\* The same cap in the runs that also generate portals.
MaxPortalNumLeaves == 5
\* Cap on the number of generate_portals calls.
MaxGenerations == 2
\* The rays of a viewcone end within this distance of the viewpoint, in x
\* and in y.
MaxRay == 2
\* The portals of the viewcone claims lie between 0 and this.
MaxCone == 3
\* The most leaves a tree built for the claims about one tree has.
MaxTreeLeaves == 4
\* The most leaves a tree built for the neighbor relation has.
MaxNeighborLeaves == 5
\* Cap on the number of leaves ever instantiated while the tree is saved.
MaxVdfNumLeaves == 5
\* The most tree elements a tree that build_shroud runs on has.
MaxOrderNumLeaves == 7

\* --------------------------------------------------------- program values
None == 0
HORIZ == 0
VERTI == 1

Orientations == {HORIZ, VERTI}

VARIABLES
    maxWidth,    \* BSPTree.maxWidth
    maxHeight,   \* BSPTree.maxHeight
    head,        \* BSPTree.head (an identity)
    portals,     \* BSPTree.portals (a set of identities of BSPPortal objects)
    heap,        \* the live objects: BSPNode, BSPLeaf and BSPPortal instances
    numLeaves,   \* BSPLeaf._numLeaves
    generations, \* the number of generate_portals calls made so far
    last,        \* the last call made on the tree, with the state it was made in
    shroud       \* the locals of the build_shroud call in progress or last made

vars == <<maxWidth, maxHeight, head, portals, heap, numLeaves, generations, last,
          shroud>>

\* ----------------------------------------------------------------- helpers
Max2(a, b) == IF a >= b THEN a ELSE b
Min2(a, b) == IF a <= b THEN a ELSE b

\* The partitions a caller may pass: every in-range value and out-of-range
\* values on both sides.
Partitions(w, h) == 0..Max2(w, h)

\* The identity a newly created object gets: the least one not in use.
NewId(h) ==
    CHOOSE i \in 1..(Cardinality(DOMAIN h) + 1) :
        /\ i \notin DOMAIN h
        /\ \A j \in 1..(i - 1) : j \in DOMAIN h

IsLeaf(h, e) == h[e].kind = "leaf"
IsNode(h, e) == h[e].kind = "node"
IsPortal(h, e) == h[e].kind = "portal"

\* The objects an object holds references to.
Refs(h, e) ==
    IF IsNode(h, e) THEN {h[e].parent, h[e].left, h[e].right} \ {None}
    ELSE IF IsLeaf(h, e) THEN ({h[e].parent} \ {None}) \cup h[e].portals \cup h[e].pvs
    ELSE {h[e].leaf1, h[e].leaf2}

RECURSIVE Closure(_, _)
Closure(h, S) ==
    LET T == S \cup UNION {Refs(h, e) : e \in S}
    IN  IF T = S THEN S ELSE Closure(h, T)

\* What is left of heap h once everything unreachable from `roots` is freed.
Collect(h, roots) == [e \in Closure(h, roots) |-> h[e]]

\* ------------------------------------------------------------ constructors
\* BSPLeaf.__init__ (with BSPElement.__init__): a new leaf object in heap h.
BSPLeaf_nonsolid(h, n, parent, bounds) ==
    LET self == NewId(h)
        obj == [kind |-> "leaf", parent |-> parent, bounds |-> bounds,
                id |-> self, solid |-> FALSE, leafID |-> n,
                portals |-> {}, pvs |-> {}]
    IN  [heap |-> (self :> obj) @@ h, numLeaves |-> n + 1, self |-> self]

BSPLeaf(h, n, parent, bounds) ==
    LET self == NewId(h)
        obj == [kind |-> "leaf", parent |-> parent, bounds |-> bounds,
                id |-> self, solid |-> TRUE, leafID |-> n,
                portals |-> {}, pvs |-> {}]
    IN  [heap |-> (self :> obj) @@ h, numLeaves |-> n + 1, self |-> self]

\* The bounds BSPNode.__init__ gives its two children.
ChildBounds(bounds, orientation, partition) ==
    LET left == bounds[1]  top == bounds[2]
        right == bounds[3] bottom == bounds[4]
    IN  IF orientation = VERTI
        THEN [leftBounds |-> <<left, top, partition, bottom>>,
              rightBounds |-> <<partition, top, right, bottom>>]
        ELSE [leftBounds |-> <<left, top, right, partition>>,
              rightBounds |-> <<left, partition, right, bottom>>]

\* BSPNode.__init__: a new node object and its two new leaf children.
BSPNode_badparent(h, n, parent, bounds, orientation, partition) ==
    LET self == NewId(h)
        cb == ChildBounds(bounds, orientation, partition)
        stub == [kind |-> "node", parent |-> parent, bounds |-> bounds,
                 id |-> self, orientation |-> orientation,
                 partition |-> partition, left |-> None, right |-> None]
        h1 == (self :> stub) @@ h
        l == BSPLeaf(h1, n, parent, cb.leftBounds)
        r == BSPLeaf(l.heap, l.numLeaves, parent, cb.rightBounds)
        obj == [stub EXCEPT !.left = l.self, !.right = r.self]
    IN  [heap |-> [r.heap EXCEPT ![self] = obj],
         numLeaves |-> r.numLeaves, self |-> self]

BSPNode(h, n, parent, bounds, orientation, partition) ==
    LET self == NewId(h)
        cb == ChildBounds(bounds, orientation, partition)
        stub == [kind |-> "node", parent |-> parent, bounds |-> bounds,
                 id |-> self, orientation |-> orientation,
                 partition |-> partition, left |-> None, right |-> None]
        h1 == (self :> stub) @@ h
        l == BSPLeaf(h1, n, self, cb.leftBounds)
        r == BSPLeaf(l.heap, l.numLeaves, self, cb.rightBounds)
        obj == [stub EXCEPT !.left = l.self, !.right = r.self]
    IN  [heap |-> [r.heap EXCEPT ![self] = obj],
         numLeaves |-> r.numLeaves, self |-> self]

\* BSPTree.__init__: the tree object's fields after construction.
BSPTree(w, h) ==
    LET l == BSPLeaf(<<>>, 0, None, <<0, 0, w, h>>)
    IN  [maxWidth |-> w, maxHeight |-> h, head |-> l.self,
         portals |-> {}, heap |-> l.heap, numLeaves |-> l.numLeaves]

\* --------------------------------------------------------------- iteration
\* BSPTree.iter_elements: the elements in the order the stack loop yields them.
RECURSIVE iter_elements_loop(_, _)
iter_elements_loop(h, nodeStack) ==
    IF nodeStack = <<>> THEN <<>>
    ELSE LET node == nodeStack[Len(nodeStack)]
             rest == SubSeq(nodeStack, 1, Len(nodeStack) - 1)
             pushed == IF IsNode(h, node)
                       THEN rest \o <<h[node].left, h[node].right>>
                       ELSE rest
         IN  <<node>> \o iter_elements_loop(h, pushed)

iter_elements(h, hd) == iter_elements_loop(h, <<hd>>)

iter_leaves(h, hd) == SelectSeq(iter_elements(h, hd), LAMBDA e : IsLeaf(h, e))

iter_visleaves(h, hd) ==
    SelectSeq(iter_leaves(h, hd), LAMBDA e : ~h[e].solid)

iter_nodes(h, hd) == SelectSeq(iter_elements(h, hd), LAMBDA e : IsNode(h, e))

Range(s) == {s[i] : i \in 1..Len(s)}

\* The elements reachable from tree.head through left and right.
Elements(h, hd) == Range(iter_elements(h, hd))
Leaves(h, hd) == Range(iter_leaves(h, hd))
Nodes(h, hd) == Range(iter_nodes(h, hd))

\* ------------------------------------------------------------- tree edits
\* The slot assignment of divide_leaf: the child slot of `parent` that holds
\* `leaf` is made to hold `newNode`; neither slot holding it is the
\* `assert False` branch.
ReplaceChild_alwaysleft(h, parent, leaf, newNode) ==
    [heap |-> [h EXCEPT ![parent].left = newNode], raised |-> FALSE]

ReplaceChild(h, parent, leaf, newNode) ==
    IF leaf = h[parent].left
    THEN [heap |-> [h EXCEPT ![parent].left = newNode], raised |-> FALSE]
    ELSE IF leaf = h[parent].right
    THEN [heap |-> [h EXCEPT ![parent].right = newNode], raised |-> FALSE]
    ELSE [heap |-> h, raised |-> TRUE]

\* BSPTree.divide_leaf.  `raised` tells that an assertion failed; the state
\* returned with it is the state the failed call leaves behind.
divide_leaf(h, hd, n, leaf, orientation, partition) ==
    LET same == [heap |-> h, head |-> hd, numLeaves |-> n, raised |-> TRUE]
        bounds == h[leaf].bounds
    IN  IF h[leaf].parent = None
        THEN IF leaf # hd THEN same
             ELSE LET nn == BSPNode(h, n, None, bounds, orientation, partition)
                  IN  [heap |-> nn.heap, head |-> nn.self,
                       numLeaves |-> nn.numLeaves, raised |-> FALSE]
        ELSE LET parent == h[leaf].parent
             IN  IF ~(leaf = h[parent].left \/ leaf = h[parent].right)
                 THEN same
                 ELSE IF ~(orientation # VERTI
                           \/ (bounds[1] < partition /\ partition < bounds[3]))
                 THEN same
                 ELSE IF ~(orientation # HORIZ
                           \/ (bounds[2] < partition /\ partition < bounds[4]))
                 THEN same
                 ELSE LET nn == BSPNode(h, n, parent, bounds, orientation, partition)
                          rc == ReplaceChild(nn.heap, parent, leaf, nn.self)
                          h2 == rc.heap
                      IN  [heap |-> h2, head |-> hd, numLeaves |-> nn.numLeaves,
                           raised |-> \/ rc.raised
                                      \/ h2[h2[parent].left].parent # parent
                                      \/ h2[h2[parent].right].parent # parent]

\* BSPTree.merge_leaf.
merge_leaf_resetroot(h, hd, n, mw, mh, leaf) ==
    LET parent == h[leaf].parent
    IN  IF parent = None \/ parent = hd
        THEN LET nl == BSPLeaf(h, n, None, <<0, 0, mw, mh>>)
             IN  [heap |-> nl.heap, head |-> nl.self,
                  numLeaves |-> nl.numLeaves, raised |-> FALSE]
        ELSE LET parentParent == h[parent].parent
                 nl == BSPLeaf(h, n, parentParent, h[parent].bounds)
             IN  IF parent = h[parentParent].right
                 THEN [heap |-> [nl.heap EXCEPT ![parentParent].right = nl.self],
                       head |-> hd, numLeaves |-> nl.numLeaves, raised |-> FALSE]
                 ELSE [heap |-> [nl.heap EXCEPT ![parentParent].left = nl.self],
                       head |-> hd, numLeaves |-> nl.numLeaves, raised |-> FALSE]

merge_leaf_leafbounds(h, hd, n, mw, mh, leaf) ==
    LET parent == h[leaf].parent
    IN  IF parent = None
        THEN [heap |-> h, head |-> hd, numLeaves |-> n, raised |-> FALSE]
        ELSE IF parent = hd
        THEN LET nl == BSPLeaf(h, n, None, <<0, 0, mw, mh>>)
             IN  [heap |-> nl.heap, head |-> nl.self,
                  numLeaves |-> nl.numLeaves, raised |-> FALSE]
        ELSE LET parentParent == h[parent].parent
                 nl == BSPLeaf(h, n, parentParent, h[leaf].bounds)
             IN  IF parent = h[parentParent].right
                 THEN [heap |-> [nl.heap EXCEPT ![parentParent].right = nl.self],
                       head |-> hd, numLeaves |-> nl.numLeaves, raised |-> FALSE]
                 ELSE [heap |-> [nl.heap EXCEPT ![parentParent].left = nl.self],
                       head |-> hd, numLeaves |-> nl.numLeaves, raised |-> FALSE]

merge_leaf(h, hd, n, mw, mh, leaf) ==
    LET parent == h[leaf].parent
    IN  IF parent = None
        THEN [heap |-> h, head |-> hd, numLeaves |-> n, raised |-> FALSE]
        ELSE IF parent = hd
        THEN LET nl == BSPLeaf(h, n, None, <<0, 0, mw, mh>>)
             IN  [heap |-> nl.heap, head |-> nl.self,
                  numLeaves |-> nl.numLeaves, raised |-> FALSE]
        ELSE LET parentParent == h[parent].parent
             IN  IF parentParent = None
                 THEN [heap |-> h, head |-> hd, numLeaves |-> n, raised |-> TRUE]
                 ELSE IF parent = h[parentParent].right
                 THEN LET nl == BSPLeaf(h, n, parentParent, h[parent].bounds)
                      IN  [heap |-> [nl.heap EXCEPT ![parentParent].right = nl.self],
                           head |-> hd, numLeaves |-> nl.numLeaves,
                           raised |-> FALSE]
                 ELSE IF parent = h[parentParent].left
                 THEN LET nl == BSPLeaf(h, n, parentParent, h[parent].bounds)
                      IN  [heap |-> [nl.heap EXCEPT ![parentParent].left = nl.self],
                           head |-> hd, numLeaves |-> nl.numLeaves,
                           raised |-> FALSE]
                 ELSE [heap |-> h, head |-> hd, numLeaves |-> n, raised |-> TRUE]

\* BSPTree.leaf_from_coords.
RECURSIVE leaf_from_coords_gt(_, _, _, _)
leaf_from_coords_gt(h, node, x, y) ==
    IF IsLeaf(h, node) THEN node
    ELSE IF h[node].orientation = HORIZ
    THEN IF y > h[node].partition
         THEN leaf_from_coords_gt(h, h[node].right, x, y)
         ELSE leaf_from_coords_gt(h, h[node].left, x, y)
    ELSE IF x > h[node].partition
         THEN leaf_from_coords_gt(h, h[node].right, x, y)
         ELSE leaf_from_coords_gt(h, h[node].left, x, y)

RECURSIVE leaf_from_coords(_, _, _, _)
leaf_from_coords(h, node, x, y) ==
    IF IsLeaf(h, node) THEN node
    ELSE IF h[node].orientation = HORIZ
    THEN IF y >= h[node].partition
         THEN leaf_from_coords(h, h[node].right, x, y)
         ELSE leaf_from_coords(h, h[node].left, x, y)
    ELSE IF x >= h[node].partition
         THEN leaf_from_coords(h, h[node].right, x, y)
         ELSE leaf_from_coords(h, h[node].left, x, y)

\* -------------------------------------------------------- segment collision
\* The numbers of segment_collision: the floats of the code are kept as exact
\* fractions <<numerator, denominator>> with a positive denominator.
Frac(n) == <<n, 1>>
FracSub(a, b) == <<a[1] * b[2] - b[1] * a[2], a[2] * b[2]>>
FracAdd(a, b) == <<a[1] * b[2] + b[1] * a[2], a[2] * b[2]>>
FracMul(a, b) == <<a[1] * b[1], a[2] * b[2]>>
FracDiv(a, b) ==
    IF b[1] > 0 THEN <<a[1] * b[2], a[2] * b[1]>>
    ELSE <<0 - a[1] * b[2], 0 - a[2] * b[1]>>
FracLess(a, b) == a[1] * b[2] < b[1] * a[2]

\* The point where the segment crosses the partition of `node`.
split_point(h, node, startPos, endPos) ==
    LET partition == Frac(h[node].partition)
    IN  IF h[node].orientation = HORIZ
        THEN LET ratio == FracDiv(FracSub(partition, startPos[2]),
                                  FracSub(endPos[2], startPos[2]))
             IN  <<FracAdd(FracMul(FracSub(endPos[1], startPos[1]), ratio),
                           startPos[1]),
                   partition>>
        ELSE LET ratio == FracDiv(FracSub(partition, startPos[1]),
                                  FracSub(endPos[1], startPos[1]))
             IN  <<partition,
                   FracAdd(FracMul(FracSub(endPos[2], startPos[2]), ratio),
                           startPos[2])>>

\* node_seg_collision of BSPTree.segment_collision: the first solid leaf
\* under `node` that the descent along the segment reaches, or None;
\* straddle is the branch taken when the segment straddles the partition,
\* end_side what follows the search of the child on the start side.
RECURSIVE node_seg_collision(_, _, _, _)
RECURSIVE straddle(_, _, _, _, _, _)
RECURSIVE end_side(_, _, _, _, _)
node_seg_collision(h, node, startPos, endPos) ==
    IF IsLeaf(h, node) THEN (IF h[node].solid THEN node ELSE None)
    ELSE LET partition == Frac(h[node].partition)
             first == IF h[node].orientation = HORIZ THEN startPos[2] ELSE startPos[1]
             second == IF h[node].orientation = HORIZ THEN endPos[2] ELSE endPos[1]
         IN  IF FracLess(first, partition) /\ FracLess(second, partition)
             THEN node_seg_collision(h, h[node].left, startPos, endPos)
             ELSE IF ~FracLess(first, partition) /\ ~FracLess(second, partition)
             THEN node_seg_collision(h, h[node].right, startPos, endPos)
             ELSE straddle(h, node, startPos, endPos,
                           FracLess(first, partition),
                           split_point(h, node, startPos, endPos))

straddle(h, node, startPos, endPos, startsLeft, splitPoint) ==
    end_side(h, IF startsLeft THEN h[node].right ELSE h[node].left,
             splitPoint, endPos,
             node_seg_collision(h, IF startsLeft THEN h[node].left ELSE h[node].right,
                                startPos, splitPoint))

end_side(h, endChild, splitPoint, endPos, result) ==
    IF result # None THEN result
    ELSE node_seg_collision(h, endChild, splitPoint, endPos)

\* The start point after the adjustment for a segment that moves backwards.
nudge(startPos, endPos) ==
    <<IF endPos[1] < startPos[1] THEN startPos[1] - 1 ELSE startPos[1],
      IF endPos[2] < startPos[2] THEN startPos[2] - 1 ELSE startPos[2]>>

FracPoint(pos) == <<Frac(pos[1]), Frac(pos[2])>>

\* BSPTree.segment_collision on points with integer coordinates.
segment_collision_nonudge(h, hd, startPos, endPos) ==
    node_seg_collision(h, hd, FracPoint(startPos), FracPoint(endPos))

segment_collision(h, hd, startPos, endPos) ==
    node_seg_collision(h, hd, FracPoint(nudge(startPos, endPos)), FracPoint(endPos))

\* ---------------------------------------------------------------- neighbors
Directions == {"L", "R", "T", "B"}

\* The ascent of BSPLeaf._iter_directed_neighbors: the nearest ancestor of
\* the wanted orientation that `node` lies under on the wanted side, or None.
RECURSIVE common_ancestor(_, _, _)
common_ancestor(h, node, direction) ==
    IF h[node].parent = None THEN None
    ELSE LET p == h[node].parent
         IN  IF \/ direction = "L" /\ h[p].orientation = VERTI /\ node = h[p].right
                \/ direction = "R" /\ h[p].orientation = VERTI /\ node = h[p].left
                \/ direction = "T" /\ h[p].orientation = HORIZ /\ node = h[p].right
                \/ direction = "B" /\ h[p].orientation = HORIZ /\ node = h[p].left
             THEN p
             ELSE common_ancestor(h, p, direction)

\* The children the descent pushes for a node, in push order.
descend_children_farside(h, node, direction) ==
    LET both == <<h[node].left, h[node].right>>
        o == h[node].orientation
    IN  IF direction = "L" THEN (IF o = VERTI THEN <<h[node].right>> ELSE both)
        ELSE IF direction = "R" THEN (IF o = VERTI THEN <<h[node].right>> ELSE both)
        ELSE IF direction = "T" THEN (IF o = HORIZ THEN <<h[node].right>> ELSE both)
        ELSE (IF o = HORIZ THEN <<h[node].left>> ELSE both)

descend_children(h, node, direction) ==
    LET both == <<h[node].left, h[node].right>>
        o == h[node].orientation
    IN  IF direction = "L" THEN (IF o = VERTI THEN <<h[node].right>> ELSE both)
        ELSE IF direction = "R" THEN (IF o = VERTI THEN <<h[node].left>> ELSE both)
        ELSE IF direction = "T" THEN (IF o = HORIZ THEN <<h[node].right>> ELSE both)
        ELSE (IF o = HORIZ THEN <<h[node].left>> ELSE both)

\* The test a leaf reached by the descent must pass to be yielded.
bounds_intersect_touching(b, s, direction) ==
    IF direction \in {"L", "R"}
    THEN ~(b[4] < s[2] \/ b[2] > s[4])
    ELSE ~(b[3] < s[1] \/ b[1] > s[3])

bounds_intersect(b, s, direction) ==
    IF direction \in {"L", "R"}
    THEN ~(b[4] <= s[2] \/ b[2] >= s[4])
    ELSE ~(b[3] <= s[1] \/ b[1] >= s[3])

\* The descent of BSPLeaf._iter_directed_neighbors: the leaves yielded.
RECURSIVE descend_loop(_, _, _, _)
descend_loop(h, self, direction, nodeStack) ==
    IF nodeStack = <<>> THEN <<>>
    ELSE LET node == nodeStack[Len(nodeStack)]
             rest == SubSeq(nodeStack, 1, Len(nodeStack) - 1)
         IN  IF IsLeaf(h, node)
             THEN (IF bounds_intersect(h[node].bounds, h[self].bounds, direction)
                   THEN <<node>> ELSE <<>>)
                  \o descend_loop(h, self, direction, rest)
             ELSE descend_loop(h, self, direction,
                               rest \o descend_children(h, node, direction))

\* The second half of BSPLeaf._iter_directed_neighbors: nothing without a
\* common ancestor, else the descent into its other side.
descend_from(h, self, direction, commonAncestor) ==
    IF commonAncestor = None THEN <<>>
    ELSE IF direction \in {"L", "T"}
    THEN descend_loop(h, self, direction, <<h[commonAncestor].left>>)
    ELSE descend_loop(h, self, direction, <<h[commonAncestor].right>>)

\* BSPLeaf._iter_directed_neighbors.
iter_directed_neighbors(h, self, direction) ==
    descend_from(h, self, direction, common_ancestor(h, self, direction))

\* BSPLeaf.iter_neighbors.
iter_neighbors(h, self) ==
    iter_directed_neighbors(h, self, "L") \o iter_directed_neighbors(h, self, "T")
    \o iter_directed_neighbors(h, self, "R") \o iter_directed_neighbors(h, self, "B")

\* BSPLeaf.is_left_neighbor_of and its three siblings: self is a neighbor of
\* `other` on `other`'s `direction` side.
is_directed_neighbor_of(h, self, other, direction) ==
    self \in Range(iter_directed_neighbors(h, other, direction))

\* ------------------------------------------------------------------ portals
\* The body of BSPPortal.__init__ once the neighbor relation of the two
\* leaves is known: the new portal object, or `raised` when an assertion of
\* the constructor fails.
portal_between_rightedge(h, leaf1, leaf2, neighborRelation) ==
    LET b1 == h[leaf1].bounds
        b2 == h[leaf2].bounds
    IN  IF h[leaf1].solid \/ h[leaf2].solid \/ neighborRelation = "none"
        THEN [raised |-> TRUE, obj |-> <<>>]
        ELSE IF neighborRelation \in {"L", "R"}
        THEN [raised |-> FALSE,
              obj |-> [kind |-> "portal", leaf1 |-> leaf1, leaf2 |-> leaf2,
                       orientation |-> VERTI,
                       start |-> <<(IF neighborRelation = "L" THEN b1[3] ELSE b1[3]),
                                   Max2(b1[2], b2[2])>>,
                       end |-> <<(IF neighborRelation = "L" THEN b1[3] ELSE b1[3]),
                                 Min2(b1[4], b2[4])>>]]
        ELSE [raised |-> FALSE,
              obj |-> [kind |-> "portal", leaf1 |-> leaf1, leaf2 |-> leaf2,
                       orientation |-> HORIZ,
                       start |-> <<Max2(b1[1], b2[1]),
                                   (IF neighborRelation = "T" THEN b1[4] ELSE b1[2])>>,
                       end |-> <<Min2(b1[3], b2[3]),
                                 (IF neighborRelation = "T" THEN b1[4] ELSE b1[2])>>]]

portal_between(h, leaf1, leaf2, neighborRelation) ==
    LET b1 == h[leaf1].bounds
        b2 == h[leaf2].bounds
    IN  IF h[leaf1].solid \/ h[leaf2].solid \/ neighborRelation = "none"
        THEN [raised |-> TRUE, obj |-> <<>>]
        ELSE IF neighborRelation \in {"L", "R"}
        THEN [raised |-> FALSE,
              obj |-> [kind |-> "portal", leaf1 |-> leaf1, leaf2 |-> leaf2,
                       orientation |-> VERTI,
                       start |-> <<(IF neighborRelation = "L" THEN b1[3] ELSE b1[1]),
                                   Max2(b1[2], b2[2])>>,
                       end |-> <<(IF neighborRelation = "L" THEN b1[3] ELSE b1[1]),
                                 Min2(b1[4], b2[4])>>]]
        ELSE [raised |-> FALSE,
              obj |-> [kind |-> "portal", leaf1 |-> leaf1, leaf2 |-> leaf2,
                       orientation |-> HORIZ,
                       start |-> <<Max2(b1[1], b2[1]),
                                   (IF neighborRelation = "T" THEN b1[4] ELSE b1[2])>>,
                       end |-> <<Min2(b1[3], b2[3]),
                                 (IF neighborRelation = "T" THEN b1[4] ELSE b1[2])>>]]

\* BSPPortal.__init__: the chain of neighbor tests, then the body.
BSPPortal(h, leaf1, leaf2) ==
    portal_between(h, leaf1, leaf2,
        IF is_directed_neighbor_of(h, leaf1, leaf2, "L") THEN "L"
        ELSE IF is_directed_neighbor_of(h, leaf1, leaf2, "T") THEN "T"
        ELSE IF is_directed_neighbor_of(h, leaf1, leaf2, "R") THEN "R"
        ELSE IF is_directed_neighbor_of(h, leaf1, leaf2, "B") THEN "B"
        ELSE "none")

\* The first loop of generate_portals: every visleaf's portal set is emptied.
clear_visleaf_portals_skipped(h, hd) == h

clear_visleaf_portals(h, hd) ==
    LET visleaves == Range(iter_visleaves(h, hd))
    IN  [e \in DOMAIN h |->
            IF e \in visleaves THEN [h[e] EXCEPT !.portals = {}] ELSE h[e]]

\* The (visleaf, neighbor) pairs in the order the nested loops of
\* generate_portals visit them.
RECURSIVE neighbor_pairs(_, _, _)
neighbor_pairs(h, visleaves, i) ==
    IF i > Len(visleaves) THEN <<>>
    ELSE LET ns == iter_neighbors(h, visleaves[i])
         IN  [k \in 1..Len(ns) |-> <<visleaves[i], ns[k]>>]
             \o neighbor_pairs(h, visleaves, i + 1)

\* The body of the nested loops of generate_portals, from pair i on;
\* add_portal is the part of the body that follows `portal = BSPPortal(...)`.
RECURSIVE build_portal_sets(_, _, _, _, _)
RECURSIVE add_portal(_, _, _, _, _, _)
build_portal_sets_reprocess(h, ps, alreadyProcessed, pairs, i) ==
    IF i > Len(pairs) THEN [heap |-> h, portals |-> ps, raised |-> FALSE]
    ELSE IF h[pairs[i][2]].solid
    THEN build_portal_sets(h, ps, alreadyProcessed, pairs, i + 1)
    ELSE add_portal(h, ps, alreadyProcessed, pairs, i,
                    BSPPortal(h, pairs[i][1], pairs[i][2]))

build_portal_sets(h, ps, alreadyProcessed, pairs, i) ==
    IF i > Len(pairs) THEN [heap |-> h, portals |-> ps, raised |-> FALSE]
    ELSE IF h[pairs[i][2]].solid \/ {pairs[i][1], pairs[i][2]} \in alreadyProcessed
    THEN build_portal_sets(h, ps, alreadyProcessed, pairs, i + 1)
    ELSE add_portal(h, ps, alreadyProcessed, pairs, i,
                    BSPPortal(h, pairs[i][1], pairs[i][2]))

add_portal(h, ps, alreadyProcessed, pairs, i, np) ==
    IF np.raised THEN [heap |-> h, portals |-> ps, raised |-> TRUE]
    ELSE LET visleaf == pairs[i][1]
             neighbor == pairs[i][2]
             portal == NewId(h)
             h1 == (portal :> np.obj) @@ h
             h2 == [h1 EXCEPT ![visleaf].portals = @ \cup {portal}]
             h3 == [h2 EXCEPT ![neighbor].portals = @ \cup {portal}]
         IN  build_portal_sets(h3, ps \cup {portal},
                               alreadyProcessed \cup {{visleaf, neighbor}},
                               pairs, i + 1)

\* The nested loops of generate_portals, run on heap h with self.portals = ps.
portal_loops(h, hd, ps) ==
    build_portal_sets(h, ps, {}, neighbor_pairs(h, iter_visleaves(h, hd), 1), 1)

\* BSPTree.generate_portals.
generate_portals_noclear(h, hd, ps) ==
    portal_loops(clear_visleaf_portals(h, hd), hd, ps)

generate_portals(h, hd, ps) ==
    portal_loops(Collect(clear_visleaf_portals(h, hd), {hd}), hd, {})

\* ------------------------------------------------------------ serialization
\* The strings of the key/value data are sequences of characters.
DigitChars == <<"0", "1", "2", "3", "4", "5", "6", "7", "8", "9">>
StrTrue == <<"T", "r", "u", "e">>
StrFalse == <<"F", "a", "l", "s", "e">>
StrBSPNode == <<"B", "S", "P", "N", "o", "d", "e">>
StrBSPLeaf == <<"B", "S", "P", "L", "e", "a", "f">>

\* A Python value that is a string, and one that is an int.
PyStr(s) == [type |-> "str", value |-> s]
PyInt(n) == [type |-> "int", value |-> n]

\* str() of an int and of a bool.
RECURSIVE str_nat(_)
str_nat(n) ==
    IF n < 10 THEN <<DigitChars[n + 1]>>
    ELSE str_nat(n \div 10) \o <<DigitChars[(n % 10) + 1]>>
str_int(n) == IF n < 0 THEN <<"-">> \o str_nat(0 - n) ELSE str_nat(n)
str_bool(b) == IF b THEN StrTrue ELSE StrFalse

\* int() of a string: an optional sign and decimal digits, else an error.
IsDigit(c) == \E i \in 1..10 : DigitChars[i] = c
DigitValue(c) == (CHOOSE i \in 1..10 : DigitChars[i] = c) - 1
RECURSIVE int_digits(_, _)
int_digits(s, acc) ==
    IF s = <<>> THEN acc
    ELSE int_digits(Tail(s), 10 * acc + DigitValue(Head(s)))
IsNumeral(s) == s # <<>> /\ \A i \in 1..Len(s) : IsDigit(s[i])
int(s) ==
    IF s # <<>> /\ Head(s) \in {"-", "+"}
    THEN IF IsNumeral(Tail(s))
         THEN [raised |-> FALSE,
               value |-> IF Head(s) = "-" THEN 0 - int_digits(Tail(s), 0)
                         ELSE int_digits(Tail(s), 0)]
         ELSE [raised |-> TRUE, value |-> 0]
    ELSE IF IsNumeral(s) THEN [raised |-> FALSE, value |-> int_digits(s, 0)]
    ELSE [raised |-> TRUE, value |-> 0]

\* BSPElement.to_dict, BSPNode.to_dict and BSPLeaf.to_dict after str_items:
\* the record of element e, every value a string, the children of a node
\* given by their ids.
bounds_to_dict(bounds) ==
    [left |-> str_int(bounds[1]), top |-> str_int(bounds[2]),
     right |-> str_int(bounds[3]), bottom |-> str_int(bounds[4])]

to_dict(h, e) ==
    IF IsNode(h, e)
    THEN [bounds |-> bounds_to_dict(h[e].bounds), type |-> StrBSPNode,
          orientation |-> str_int(h[e].orientation),
          partition |-> str_int(h[e].partition),
          left |-> str_int(h[h[e].left].id),
          right |-> str_int(h[h[e].right].id)]
    ELSE [bounds |-> bounds_to_dict(h[e].bounds), type |-> StrBSPLeaf,
          leafID |-> str_int(h[e].leafID), solid |-> str_bool(h[e].solid)]

\* The position of x in sequence s, 0 when x is not in it.
IndexOf(s, x) ==
    IF \E i \in 1..Len(s) : s[i] = x
    THEN CHOOSE i \in 1..Len(s) : s[i] = x
    ELSE 0

\* The renumbering passes of to_vdf: every leaf gets leafID -1, then each
\* visleaf its rank among the visleaves, and each element its rank among
\* the elements, both in iter_elements order from 0.
renumber_allleaves(h, elements, visleaves) ==
    [e \in DOMAIN h |->
        IF IndexOf(elements, e) = 0 THEN h[e]
        ELSE IF IsLeaf(h, e)
        THEN [h[e] EXCEPT !.leafID =
                  IndexOf(SelectSeq(elements, LAMBDA x : IsLeaf(h, x)), e) - 1,
                          !.id = IndexOf(elements, e) - 1]
        ELSE [h[e] EXCEPT !.id = IndexOf(elements, e) - 1]]

renumber(h, elements, visleaves) ==
    [e \in DOMAIN h |->
        IF IndexOf(elements, e) = 0 THEN h[e]
        ELSE IF IsLeaf(h, e)
        THEN [h[e] EXCEPT !.leafID = IndexOf(visleaves, e) - 1,
                          !.id = IndexOf(elements, e) - 1]
        ELSE [h[e] EXCEPT !.id = IndexOf(elements, e) - 1]]

\* The mapping to_vdf hands to format_vdf, built on the renumbered heap h.
bsp_dict(h, elements, mw, mh) ==
    [maxWidth |-> str_int(mw), maxHeight |-> str_int(mh),
     elements |-> [i \in 1..Len(elements) |->
                      <<str_int(i - 1), to_dict(h, elements[i])>>]]

\* BSPTree.to_vdf: the heap with the new ids and leafIDs, and the mapping
\* under the key BSP.
vdf_of(h, elements, mw, mh) == [heap |-> h, BSP |-> bsp_dict(h, elements, mw, mh)]

to_vdf(h, hd, mw, mh) ==
    vdf_of(renumber(h, iter_elements(h, hd), iter_visleaves(h, hd)),
           iter_elements(h, hd), mw, mh)

\* d[key] raises KeyError when the mapping d has no such key.
HasKeys(d, keys) == \A k \in keys : k \in DOMAIN d

\* BSPElement.get_bounds_from_dict.
bounds_of_ints(l, t, r, b) ==
    [raised |-> l.raised \/ t.raised \/ r.raised \/ b.raised,
     value |-> <<l.value, t.value, r.value, b.value>>]

get_bounds_from_dict(elemDict) ==
    IF ~HasKeys(elemDict, {"bounds"}) THEN [raised |-> TRUE, value |-> <<>>]
    ELSE IF ~HasKeys(elemDict.bounds, {"left", "top", "right", "bottom"})
    THEN [raised |-> TRUE, value |-> <<>>]
    ELSE bounds_of_ints(int(elemDict.bounds.left), int(elemDict.bounds.top),
                        int(elemDict.bounds.right), int(elemDict.bounds.bottom))

\* The result of a from_dict that raised.
Raised(h, n) == [raised |-> TRUE, heap |-> h, numLeaves |-> n, self |-> None]
Returned(r) ==
    [raised |-> FALSE, heap |-> r.heap, numLeaves |-> r.numLeaves, self |-> r.self]

\* BSPNode.from_dict: a new node with two new leaves of its own; the
\* constructor raises on an orientation that is neither HORIZ nor VERTI.
node_from_ints(h, n, bounds, orientation, partition) ==
    IF bounds.raised \/ orientation.raised \/ partition.raised THEN Raised(h, n)
    ELSE IF orientation.value \notin Orientations THEN Raised(h, n)
    ELSE Returned(BSPNode(h, n, None, bounds.value, orientation.value,
                          partition.value))

node_from_dict(h, n, nodeDict) ==
    IF ~HasKeys(nodeDict, {"orientation", "partition"}) THEN Raised(h, n)
    ELSE node_from_ints(h, n, get_bounds_from_dict(nodeDict),
                        int(nodeDict.orientation), int(nodeDict.partition))

\* BSPLeaf.from_dict.
leaf_with(r, leafID, solid) ==
    [raised |-> FALSE,
     heap |-> [r.heap EXCEPT ![r.self].leafID = leafID, ![r.self].solid = solid],
     numLeaves |-> r.numLeaves, self |-> r.self]

leaf_from_ints(h, n, bounds, leafID, solid) ==
    IF bounds.raised \/ leafID.raised THEN Raised(h, n)
    ELSE IF solid \notin {StrTrue, StrFalse} THEN Raised(h, n)
    ELSE leaf_with(BSPLeaf(h, n, None, bounds.value), leafID.value,
                   solid = StrTrue)

leaf_from_dict(h, n, leafDict) ==
    IF ~HasKeys(leafDict, {"solid", "leafID"}) THEN Raised(h, n)
    ELSE leaf_from_ints(h, n, get_bounds_from_dict(leafDict),
                        int(leafDict.leafID), leafDict.solid)

\* Pass 1 of from_vdf on one record: the new element, or the error.
element_from_dict(h, n, elementDict) ==
    IF ~HasKeys(elementDict, {"type"}) THEN Raised(h, n)
    ELSE IF elementDict.type = StrBSPNode THEN node_from_dict(h, n, elementDict)
    ELSE IF elementDict.type = StrBSPLeaf THEN leaf_from_dict(h, n, elementDict)
    ELSE Raised(h, n)

\* Pass 1 of from_vdf: the list of the new elements, in the order of the
\* records.
RECURSIVE instantiate(_, _, _)
instantiate_next(r, elementsDict, elements) ==
    IF r.raised THEN [raised |-> TRUE, heap |-> r.heap,
                      numLeaves |-> r.numLeaves, elements |-> elements]
    ELSE instantiate([raised |-> FALSE, heap |-> r.heap,
                      numLeaves |-> r.numLeaves,
                      elements |-> Append(elements, r.self)],
                     elementsDict, Len(elements) + 2)

instantiate(acc, elementsDict, i) ==
    IF i > Len(elementsDict) THEN acc
    ELSE instantiate_next(element_from_dict(acc.heap, acc.numLeaves,
                                            elementsDict[i][2]),
                          elementsDict, acc.elements)

\* elements[index] of a Python list: a negative index counts from the end,
\* 0 stands for IndexError.
list_position(elements, index) ==
    IF index >= 0 /\ index < Len(elements) THEN index + 1
    ELSE IF index < 0 /\ index >= 0 - Len(elements)
    THEN Len(elements) + index + 1
    ELSE 0

\* Pass 2 of from_vdf on one node: its children and their parents.
link(h, element, left, right) ==
    [h EXCEPT ![element].left = left, ![element].right = right,
              ![left].parent = element, ![right].parent = element]

relink_element(h, elements, element, leftIndex, rightIndex) ==
    IF leftIndex.raised \/ rightIndex.raised THEN [raised |-> TRUE, heap |-> h]
    ELSE IF list_position(elements, leftIndex.value) = 0
            \/ list_position(elements, rightIndex.value) = 0
    THEN [raised |-> TRUE, heap |-> h]
    ELSE [raised |-> FALSE,
          heap |-> link(h, element,
                        elements[list_position(elements, leftIndex.value)],
                        elements[list_position(elements, rightIndex.value)])]

RECURSIVE relink(_, _, _, _)
relink_next(r, elements, elementsDict, i) ==
    IF r.raised THEN r ELSE relink(r.heap, elements, elementsDict, i)

relink(h, elements, elementsDict, i) ==
    IF i > Len(elements) THEN [raised |-> FALSE, heap |-> h]
    ELSE IF ~IsNode(h, elements[i]) THEN relink(h, elements, elementsDict, i + 1)
    ELSE IF ~HasKeys(elementsDict[i][2], {"left", "right"})
    THEN [raised |-> TRUE, heap |-> h]
    ELSE relink_next(relink_element(h, elements, elements[i],
                                    int(elementsDict[i][2].left),
                                    int(elementsDict[i][2].right)),
                     elements, elementsDict, i + 1)

\* The tree from_vdf returns, or the error it ends with.
NoTree(n) ==
    [raised |-> TRUE, heap |-> <<>>, numLeaves |-> n, maxWidth |-> PyStr(<<>>),
     maxHeight |-> PyStr(<<>>), head |-> None, portals |-> {}]

loaded_tree(bspDict, r2, elements, n) ==
    IF r2.raised \/ elements = <<>> THEN NoTree(n)
    ELSE [raised |-> FALSE, heap |-> r2.heap, numLeaves |-> n,
          maxWidth |-> PyStr(bspDict.maxWidth),
          maxHeight |-> PyStr(bspDict.maxHeight),
          head |-> elements[1], portals |-> {}]

relinked_tree(bspDict, r1) ==
    IF r1.raised THEN NoTree(r1.numLeaves)
    ELSE loaded_tree(bspDict,
                     relink(r1.heap, r1.elements, bspDict.elements, 1),
                     r1.elements, r1.numLeaves)

\* BSPTree.from_vdf on the mapping under the key BSP, with n leaves
\* instantiated so far: the new tree is built from objects of its own, its
\* maxWidth and maxHeight are the values of the mapping as they are.
from_vdf(n, bspDict) ==
    IF ~HasKeys(bspDict, {"maxWidth", "maxHeight", "elements"}) THEN NoTree(n)
    ELSE relinked_tree(bspDict,
            instantiate([raised |-> FALSE,
                         heap |-> BSPLeaf(<<>>, n, None,
                                          <<0, 0, bspDict.maxWidth,
                                            bspDict.maxHeight>>).heap,
                         numLeaves |-> n + 1, elements |-> <<>>],
                        bspDict.elements, 1))

\* ------------------------------------------------------------------ actions
\* The editor's test of the partition before it calls divide_leaf.
InRange(bounds, orientation, partition) ==
    IF orientation = VERTI
    THEN bounds[1] < partition /\ partition < bounds[3]
    ELSE bounds[2] < partition /\ partition < bounds[4]

\* The record kept of a call: its arguments, whether the partition was
\* strictly inside the leaf (TRUE for a call that takes none), and the state
\* it was made in.
Call(op, leaf, orientation, partition, inRange) ==
    [op |-> op, leaf |-> leaf, orientation |-> orientation,
     partition |-> partition, inRange |-> inRange, raised |-> FALSE,
     head |-> head, heap |-> heap, portals |-> portals,
     numLeaves |-> numLeaves]

\* The record kept of a divide_leaf or a generate_portals that raised: the
\* state it was made in and whether the partition was strictly inside the
\* leaf, not the arguments.
RaisedCall(op, inRange) ==
    [op |-> op, leaf |-> None, orientation |-> HORIZ,
     partition |-> 0, inRange |-> inRange, raised |-> TRUE,
     head |-> head, heap |-> heap, portals |-> portals,
     numLeaves |-> numLeaves]

\* The record kept of a change of a solid flag, and of the construction:
\* only that it happened.
Event(op) ==
    [op |-> op, leaf |-> None, orientation |-> HORIZ,
     partition |-> 0, inRange |-> TRUE, raised |-> FALSE,
     head |-> None, heap |-> <<>>, portals |-> {}, numLeaves |-> 0]

\* The locals of build_shroud before any call of it.
NoShroud ==
    [running |-> FALSE, raised |-> FALSE, playerLeaf |-> None,
     visleafStack |-> <<>>,
     alreadyProcessedPortals |-> {}, visleaf |-> None, pending |-> {},
     shroudmapDict |-> {}, popped |-> 0, pushed |-> <<>>, passed |-> {}]

Init ==
    \E w \in 1..MaxWidth, h \in 1..MaxHeight :
        LET t == BSPTree(w, h)
        IN  /\ maxWidth = t.maxWidth
            /\ maxHeight = t.maxHeight
            /\ head = t.head
            /\ portals = t.portals
            /\ heap = t.heap
            /\ numLeaves = t.numLeaves
            /\ generations = 0
            /\ last = Event("init")
            /\ shroud = NoShroud

\* The state after a call on the tree that gave result r: what the call
\* left of the tree, and the record of the call.
TreeCall(r, returned, raised) ==
    /\ heap' = Collect(r.heap, {r.head} \cup portals)
    /\ head' = r.head
    /\ numLeaves' = r.numLeaves
    /\ last' = IF r.raised THEN raised ELSE returned
    /\ UNCHANGED <<maxWidth, maxHeight, portals, generations, shroud>>

\* b.divide_leaf(leaf, orientation, partition), while fewer than `cap`
\* leaves have been instantiated.
DivideWith(leaf, orientation, partition, cap) ==
    /\ numLeaves + 2 <= cap
    /\ TreeCall(divide_leaf(heap, head, numLeaves, leaf, orientation, partition),
                Call("divide", leaf, orientation, partition,
                     InRange(heap[leaf].bounds, orientation, partition)),
                RaisedCall("divide",
                           InRange(heap[leaf].bounds, orientation, partition)))

\* A caller that passes any partition to a leaf of the tree.
Divide ==
    \E leaf \in Leaves(heap, head), orientation \in Orientations,
       partition \in Partitions(maxWidth, maxHeight) :
        DivideWith(leaf, orientation, partition, MaxNumLeaves)

\* The editor's division: divide_leaf is called only with a partition
\* strictly inside the leaf.
DivideInRange ==
    \E leaf \in Leaves(heap, head), orientation \in Orientations,
       partition \in Partitions(maxWidth, maxHeight) :
        /\ InRange(heap[leaf].bounds, orientation, partition)
        /\ DivideWith(leaf, orientation, partition, MaxNumLeaves)

\* b.merge_leaf(leaf) on a leaf of the tree.
MergeWith(leaf, cap) ==
    /\ numLeaves + 1 <= cap
    /\ TreeCall(merge_leaf(heap, head, numLeaves, maxWidth, maxHeight, leaf),
                Call("merge", leaf, HORIZ, 0, TRUE),
                [Call("merge", leaf, HORIZ, 0, TRUE) EXCEPT !.raised = TRUE])

Merge == \E leaf \in Leaves(heap, head) : MergeWith(leaf, MaxNumLeaves)

\* leaf.solid = not leaf.solid on a leaf of the tree.
ToggleSolid ==
    \E leaf \in Leaves(heap, head) :
        /\ heap' = [heap EXCEPT ![leaf].solid = ~@]
        /\ last' = Event("toggle")
        /\ UNCHANGED <<maxWidth, maxHeight, head, portals, numLeaves, generations,
                       shroud>>

\* The state after a generate_portals that gave result r.
PortalCall(r) ==
    /\ heap' = Collect(r.heap, {head} \cup r.portals)
    /\ portals' = r.portals
    /\ last' = IF r.raised THEN RaisedCall("generate", TRUE)
               ELSE Call("generate", None, HORIZ, 0, TRUE)
    /\ UNCHANGED <<maxWidth, maxHeight, head, numLeaves, shroud>>

PortalEvent(r) ==
    /\ heap' = Collect(r.heap, {head} \cup r.portals)
    /\ portals' = r.portals
    /\ last' = IF r.raised THEN [Event("generate") EXCEPT !.raised = TRUE]
               ELSE Event("generate")
    /\ UNCHANGED <<maxWidth, maxHeight, head, numLeaves, shroud>>

\* b.generate_portals().
GeneratePortals ==
    /\ generations < MaxGenerations
    /\ generations' = generations + 1
    /\ PortalCall(generate_portals(heap, head, portals))

Next == Divide \/ Merge \/ ToggleSolid

Spec == Init /\ [][Next]_vars

\* The tree as the editor builds it: every division is in range.
NextInRange == DivideInRange \/ Merge \/ ToggleSolid

SpecInRange == Init /\ [][NextInRange]_vars

\* The editor's tree edits interleaved with portal generation.
DividePortals ==
    \E leaf \in Leaves(heap, head), orientation \in Orientations,
       partition \in Partitions(maxWidth, maxHeight) :
        /\ InRange(heap[leaf].bounds, orientation, partition)
        /\ DivideWith(leaf, orientation, partition, MaxPortalNumLeaves)

MergePortals == \E leaf \in Leaves(heap, head) : MergeWith(leaf, MaxPortalNumLeaves)

NextPortals == DividePortals \/ MergePortals \/ ToggleSolid \/ GeneratePortals

\* The editor's tree: one world of the one size the editor is built with,
\* wider than it is high.
InitPortals == Init /\ maxWidth = MaxWidth /\ maxHeight = MaxHeight

SpecPortals == InitPortals /\ [][NextPortals]_vars

\* The trees the editor can build, without the history of how: divisions in
\* range while the tree has fewer than MaxTreeLeaves leaves, and changes of
\* solid flags.
\* f.write(b.to_vdf()): the record of the call keeps the mapping written and
\* the heap the call was made on.
VdfCall(r) ==
    /\ heap' = r.heap
    /\ last' = [op |-> "to_vdf", raised |-> FALSE, head |-> head,
                 heap |-> heap, numLeaves |-> numLeaves, BSP |-> r.BSP]
    /\ UNCHANGED <<maxWidth, maxHeight, head, portals, numLeaves, generations,
                   shroud>>

ToVdf == VdfCall(to_vdf(heap, head, maxWidth, maxHeight))

Grow ==
    /\ Cardinality(Leaves(heap, head)) < MaxTreeLeaves
    /\ \E leaf \in Leaves(heap, head), orientation \in Orientations,
          partition \in Partitions(maxWidth, maxHeight) :
           /\ InRange(heap[leaf].bounds, orientation, partition)
           /\ TreeCall(divide_leaf(heap, head, numLeaves, leaf, orientation,
                                   partition),
                       Event("divide"), Event("divide"))

NextTrees == Grow \/ ToggleSolid

SpecTrees == Init /\ [][NextTrees]_vars

\* The trees the neighbor relation is looked at on: divisions in range while
\* the tree has fewer than MaxNeighborLeaves leaves. The neighbor tests read
\* bounds and links only, never a solid flag.
GrowNeighbors ==
    /\ Cardinality(Leaves(heap, head)) < MaxNeighborLeaves
    /\ \E leaf \in Leaves(heap, head), orientation \in Orientations,
          partition \in Partitions(maxWidth, maxHeight) :
           /\ InRange(heap[leaf].bounds, orientation, partition)
           /\ TreeCall(divide_leaf(heap, head, numLeaves, leaf, orientation,
                                   partition),
                       Event("divide"), Event("divide"))

SpecNeighbors == Init /\ [][GrowNeighbors]_vars

\* The editor, saving: divisions inside the leaf, merges, solid flags and
\* to_vdf.
DivideVdf ==
    \E leaf \in Leaves(heap, head), orientation \in Orientations,
       partition \in Partitions(maxWidth, maxHeight) :
        /\ numLeaves + 2 <= MaxVdfNumLeaves
        /\ InRange(heap[leaf].bounds, orientation, partition)
        /\ TreeCall(divide_leaf(heap, head, numLeaves, leaf, orientation, partition),
                    Event("divide"), Event("divide"))

MergeVdf ==
    \E leaf \in Leaves(heap, head) :
        /\ numLeaves + 1 <= MaxVdfNumLeaves
        /\ TreeCall(merge_leaf(heap, head, numLeaves, maxWidth, maxHeight, leaf),
                    Event("merge"), Event("merge"))

NextVdf == DivideVdf \/ MergeVdf \/ ToggleSolid \/ ToVdf
SpecVdf == InitPortals /\ [][NextVdf]_vars

\* ---------------------------------------------------------------- viewcones
\* The side of a block in pixels (vismain.BLOCK_SIZE).
BLOCK_SIZE == 32

normal_from_lineseg(seg) ==
    <<seg[2][2] - seg[1][2], 0 - (seg[2][1] - seg[1][1])>>

dot(a, b) == a[1] * b[1] + a[2] * b[2]

sign(n) == IF n > 0 THEN 1 ELSE IF n < 0 THEN 0 - 1 ELSE 0

\* The function new_coord_rebaser(base) returns, applied to absCoords.
rebaser(base, absCoords) == <<absCoords[1] - base[1], absCoords[2] - base[2]>>

\* The pixels pygame.draw.rect fills for Rect((x, y), (blockSize, blockSize)).
block_pixels(blockSize, x, y) ==
    (x..(x + blockSize - 1)) \X (y..(y + blockSize - 1))

\* The corners of a block other than its first, relative to the viewpoint.
otherCorners(rel, blockSize) ==
    {<<rel[1] + blockSize, rel[2]>>, <<rel[1], rel[2] + blockSize>>,
     <<rel[1] + blockSize, rel[2] + blockSize>>}

\* The test of one corner in the for loop of fill_surface_within_viewcone:
\* the corner makes the block be divided.
corner_divides(leftCollision, rightCollision, leftDotSign, rightDotSign) ==
    /\ leftCollision \/ rightCollision
    /\ ~(/\ ~(leftCollision /\ rightCollision)
          /\ \/ leftCollision /\ rightDotSign = 0 - 1
             \/ rightCollision /\ leftDotSign = 1)

collision(nL, nR, rel, blockSize, leftDotSign, rightDotSign) ==
    \E corner \in otherCorners(rel, blockSize) :
        corner_divides(sign(dot(nL, corner)) # leftDotSign,
                       sign(dot(nR, corner)) # rightDotSign,
                       leftDotSign, rightDotSign)

\* What the while loop of fill_surface_within_viewcone lights for one block
\* of its stack, the four blocks it may push for it included: the blocks
\* are handled independently of each other, so the order of the stack does
\* not show in the pixels lit.
RECURSIVE fill_block(_, _, _, _, _, _)
fill_block_signs(nL, nR, viewpoint, blockSize, x, y, leftDotSign, rightDotSign) ==
    IF blockSize = 1
    THEN IF leftDotSign = 0 - 1 /\ rightDotSign = 1 THEN {<<x, y>>} ELSE {}
    ELSE IF collision(nL, nR, rebaser(viewpoint, <<x, y>>), blockSize,
                      leftDotSign, rightDotSign)
    THEN fill_block(nL, nR, viewpoint, blockSize \div 2, x, y)
         \cup fill_block(nL, nR, viewpoint, blockSize \div 2,
                         x + blockSize \div 2, y)
         \cup fill_block(nL, nR, viewpoint, blockSize \div 2,
                         x, y + blockSize \div 2)
         \cup fill_block(nL, nR, viewpoint, blockSize \div 2,
                         x + blockSize \div 2, y + blockSize \div 2)
    ELSE IF leftDotSign = 0 - 1 /\ rightDotSign = 1
    THEN block_pixels(blockSize, x, y)
    ELSE {}

fill_block(nL, nR, viewpoint, blockSize, x, y) ==
    fill_block_signs(nL, nR, viewpoint, blockSize, x, y,
                     sign(dot(nL, rebaser(viewpoint, <<x, y>>))),
                     sign(dot(nR, rebaser(viewpoint, <<x, y>>))))

\* fill_surface_within_viewcone on a dark surface of surfWidth x surfHeight
\* pixels: the pixels that are white afterwards.
fill_surface_within_viewcone(surfWidth, surfHeight, viewconeLeft, viewconeRight) ==
    UNION {fill_block(normal_from_lineseg(viewconeLeft),
                      normal_from_lineseg(viewconeRight),
                      viewconeLeft[1], BLOCK_SIZE, x * BLOCK_SIZE, y * BLOCK_SIZE) :
           <<x, y>> \in (0..(surfWidth \div BLOCK_SIZE - 1))
                            \X (0..(surfHeight \div BLOCK_SIZE - 1))}

\* The floats of the viewcone functions are kept as exact fractions in
\* lowest terms, so that equal numbers are equal values.
RECURSIVE GCD(_, _)
GCD(a, b) == IF b = 0 THEN a ELSE GCD(b, a % b)
Abs(n) == IF n < 0 THEN 0 - n ELSE n
Lowest(a) ==
    IF a[1] = 0 THEN <<0, 1>>
    ELSE <<a[1] \div GCD(Abs(a[1]), a[2]), a[2] \div GCD(Abs(a[1]), a[2])>>
QAdd(a, b) == Lowest(FracAdd(a, b))
QSub(a, b) == Lowest(FracSub(a, b))
QMul(a, b) == Lowest(FracMul(a, b))
QDiv(a, b) == Lowest(FracDiv(a, b))
QMin(a, b) == IF FracLess(b, a) THEN b ELSE a
QMax(a, b) == IF FracLess(a, b) THEN b ELSE a
\* int() of a float: truncation toward zero.
QInt(a) == IF a[1] >= 0 THEN a[1] \div a[2] ELSE 0 - ((0 - a[1]) \div a[2])
QPoint(pos) == <<Frac(pos[1]), Frac(pos[2])>>

\* intersect_line_ray: the intersection point (`hit`), no point when the
\* ray is parallel to the line or points away from it, and `raised` for
\* the division by zero.
NoPoint == [raised |-> FALSE, hit |-> FALSE, point |-> <<Frac(0), Frac(0)>>]
ray_point(rayStart, rayVector, parameter) ==
    IF FracLess(parameter, Frac(0)) THEN NoPoint
    ELSE [raised |-> FALSE, hit |-> TRUE,
          point |-> <<QAdd(rayStart[1], QMul(parameter, rayVector[1])),
                      QAdd(rayStart[2], QMul(parameter, rayVector[2]))>>]

is_parallel(d1, d2) ==
    \/ d1[1][1] = 0 /\ d2[1][1] = 0
    \/ /\ d1[1][1] # 0 /\ d2[1][1] # 0
       /\ QDiv(d1[2], d1[1]) = QDiv(d2[2], d2[1])

intersect_vectors(p1, d1, p2, d2) ==
    IF is_parallel(d1, d2) THEN NoPoint
    ELSE IF QSub(QMul(d2[1], d1[2]), QMul(d1[1], d2[2])) = Frac(0)
    THEN [NoPoint EXCEPT !.raised = TRUE]
    ELSE ray_point(p2, d2,
            QDiv(QAdd(QSub(QSub(QMul(p2[2], d1[1]), QMul(p1[2], d1[1])),
                           QMul(p2[1], d1[2])),
                      QMul(p1[1], d1[2])),
                 QSub(QMul(d2[1], d1[2]), QMul(d1[1], d2[2]))))

intersect_line_ray(lineSeg, raySeg) ==
    intersect_vectors(lineSeg[1],
                      <<QSub(lineSeg[2][1], lineSeg[1][1]),
                        QSub(lineSeg[2][2], lineSeg[1][2])>>,
                      raySeg[1],
                      <<QSub(raySeg[2][1], raySeg[1][1]),
                        QSub(raySeg[2][2], raySeg[1][2])>>)

\* A point clamped componentwise to the portal from start to end.
clamp(point, start, end) ==
    <<QMin(QMax(point[1], start[1]), end[1]),
      QMin(QMax(point[2], start[2]), end[2])>>

\* miss_end with the orientation ignored: every portal is treated as a
\* vertical one.
miss_end_vertical(orientation, start, end, rayStart, below) ==
    IF FracLess(rayStart[1], start[1]) THEN below
    ELSE IF below = start THEN end ELSE start

\* The end restrict_viewcone gives a ray that misses the portal's line:
\* `below` is the portal end taken when the ray starts before the portal.
miss_end(orientation, start, end, rayStart, below) ==
    IF orientation = VERTI
    THEN IF FracLess(rayStart[1], start[1]) THEN below
         ELSE IF below = start THEN end ELSE start
    ELSE IF FracLess(rayStart[2], start[2])
         THEN IF below = start THEN end ELSE start
         ELSE below

\* One ray of restrict_viewcone.
restricted_ray(orientation, start, end, ray, below, intersect) ==
    IF ~intersect.hit
    THEN <<ray[1], miss_end(orientation, start, end, ray[1], below)>>
    ELSE <<ray[1], clamp(intersect.point, start, end)>>

\* restrict_viewcone for a portal of the given orientation from start to
\* end.
restrict_rays(orientation, start, end, left, right, intersectLeft, intersectRight) ==
    IF intersectLeft.raised \/ intersectRight.raised
    THEN [raised |-> TRUE, left |-> left, right |-> right]
    ELSE [raised |-> FALSE,
          left |-> restricted_ray(orientation, start, end, left, start,
                                  intersectLeft),
          right |-> restricted_ray(orientation, start, end, right, end,
                                   intersectRight)]

restrict_viewcone(orientation, start, end, viewconeLeft, viewconeRight) ==
    restrict_rays(orientation, start, end, viewconeLeft, viewconeRight,
                  intersect_line_ray(<<start, end>>, viewconeLeft),
                  intersect_line_ray(<<start, end>>, viewconeRight))

\* The clamped intersection point as portal_within_viewcone compares it:
\* both coordinates go through int().
bounded_exact(point, start, end) ==
    <<Frac(QInt(clamp(point, start, end)[1])), clamp(point, start, end)[2]>>

bounded(point, start, end) ==
    <<Frac(QInt(clamp(point, start, end)[1])),
      Frac(QInt(clamp(point, start, end)[2]))>>

\* portal_within_viewcone.
within_points(start, end, intersectLeft, intersectRight) ==
    IF intersectLeft.raised \/ intersectRight.raised
    THEN [raised |-> TRUE, value |-> FALSE]
    ELSE [raised |-> FALSE,
          value |->
             IF intersectLeft.hit /\ intersectRight.hit
             THEN bounded(intersectLeft.point, start, end)
                      # bounded(intersectRight.point, start, end)
             ELSE intersectLeft.hit \/ intersectRight.hit]

portal_within_viewcone(start, end, viewconeLeft, viewconeRight) ==
    within_points(start, end,
                  intersect_line_ray(<<start, end>>, viewconeLeft),
                  intersect_line_ray(<<start, end>>, viewconeRight))

\* The portals the viewcone functions are applied to: vertical and
\* horizontal segments on the line at 1, between 0 and MaxCone.
ConePortals ==
    {[orientation |-> VERTI, start |-> <<1, a>>, end |-> <<1, b>>] :
        <<a, b>> \in {c \in (0..MaxCone) \X (0..MaxCone) : c[1] < c[2]}}
    \cup {[orientation |-> HORIZ, start |-> <<a, 1>>, end |-> <<b, 1>>] :
        <<a, b>> \in {c \in (0..MaxCone) \X (0..MaxCone) : c[1] < c[2]}}

\* The viewpoints of the viewcones: before, on and behind the line.
ConeViewpoints == (0..(MaxCone - 1)) \X (0..(MaxCone - 1))

\* The rays a viewcone test is made with: they start at the viewpoint and
\* end at most MaxRay from it in x and in y.
RayEnds(viewpoint) ==
    {<<viewpoint[1] + dx, viewpoint[2] + dy>> :
        <<dx, dy>> \in (((0 - MaxRay)..MaxRay) \X ((0 - MaxRay)..MaxRay)) \ {<<0, 0>>}}

\* The viewpoints the surface is filled for: points on a grid of
\* BLOCK_SIZE / 4 in and around the surface.
Viewpoints ==
    {<<x * (BLOCK_SIZE \div 4), y * (BLOCK_SIZE \div 4)>> :
        <<x, y>> \in {<<1, 2>>, <<0, 0>>, <<2, 2>>, <<4, 1>>, <<0 - 1, 3>>, <<3, 5>>}}

\* fill_surface_within_viewcone(shroudmap, left, right) on a dark surface of
\* one block, once: the record of the call keeps its arguments and the
\* pixels lit.
FillSurface ==
    /\ last.op = "init"
    /\ \E viewpoint \in Viewpoints :
        \E leftEnd \in RayEnds(viewpoint), rightEnd \in RayEnds(viewpoint) :
           last' = [op |-> "fill", raised |-> FALSE,
                    surfWidth |-> BLOCK_SIZE, surfHeight |-> BLOCK_SIZE,
                    viewconeLeft |-> <<viewpoint, leftEnd>>,
                    viewconeRight |-> <<viewpoint, rightEnd>>,
                    lit |-> fill_surface_within_viewcone(BLOCK_SIZE, BLOCK_SIZE,
                                <<viewpoint, leftEnd>>, <<viewpoint, rightEnd>>)]
    /\ UNCHANGED <<maxWidth, maxHeight, head, portals, heap, numLeaves,
                   generations, shroud>>

SpecFill == InitPortals /\ [][FillSurface]_vars

\* The directions of the rays of a viewcone: one ray for every slope
\* 0, 1/2, 1, 2 and vertical, in every quadrant. The intersection of a ray
\* with a line depends on the ray's direction only, never on its length.
ConeDirections ==
    {d \in ((0 - 2)..2) \X ((0 - 2)..2) : GCD(Abs(d[1]), Abs(d[2])) = 1}

\* The end of the ray that leaves the viewpoint in a direction.
RayEnd(viewpoint, direction) ==
    <<viewpoint[1] + direction[1], viewpoint[2] + direction[2]>>

\* The viewcone calls build_shroud makes for one portal, once:
\* portal_within_viewcone and restrict_viewcone on the same portal and rays.
\* The record of the calls keeps their arguments and results.
ConeCall(orientation, start, end, left, right) ==
    /\ last' = [op |-> "cone", raised |-> FALSE, orientation |-> orientation,
                start |-> start, end |-> end, left |-> left, right |-> right,
                within |-> portal_within_viewcone(start, end, left, right),
                restricted |-> restrict_viewcone(orientation, start, end,
                                                left, right)]
    /\ UNCHANGED <<maxWidth, maxHeight, head, portals, heap, numLeaves,
                   generations, shroud>>

TestAndRestrict ==
    /\ last.op = "init"
    /\ \E portal \in ConePortals, viewpoint \in ConeViewpoints :
        \E leftDir \in ConeDirections, rightDir \in ConeDirections :
            ConeCall(portal.orientation, QPoint(portal.start), QPoint(portal.end),
                     <<QPoint(viewpoint), QPoint(RayEnd(viewpoint, leftDir))>>,
                     <<QPoint(viewpoint), QPoint(RayEnd(viewpoint, rightDir))>>)

SpecCone == InitPortals /\ [][TestAndRestrict]_vars

\* ------------------------------------------------------------ build_shroud
\* BSPPortal.get_other: the leaf on the other side, None for the assertion
\* failure.
get_other(h, portal, leaf) ==
    IF leaf = h[portal].leaf1 THEN h[portal].leaf2
    ELSE IF leaf = h[portal].leaf2 THEN h[portal].leaf1
    ELSE None

\* The positions a viewer can take: the points of the world.
ViewPositions == (0..(maxWidth - 1)) \X (0..(maxHeight - 1))

\* build_shroud up to its loop, called on a tree whose portals have been
\* generated: the stack holds the leaf of the viewer.
StartShroud ==
    /\ ~shroud.running
    /\ last.op = "generate" /\ ~last.raised
    /\ \E viewPos \in ViewPositions :
        shroud' = [NoShroud EXCEPT
                      !.running = TRUE,
                      !.playerLeaf =
                          leaf_from_coords(heap, head, viewPos[1], viewPos[2]),
                      !.visleafStack =
                          <<leaf_from_coords(heap, head, viewPos[1], viewPos[2])>>]
    /\ UNCHANGED <<maxWidth, maxHeight, head, portals, heap, numLeaves,
                   generations, last>>

\* One turn of the while loop up to its for loop: a leaf is popped and gets
\* its shroudmap.
PopVisleaf ==
    /\ shroud.running /\ shroud.pending = {} /\ shroud.visleafStack # <<>>
    /\ shroud' = [shroud EXCEPT
           !.visleafStack = SubSeq(@, 1, Len(@) - 1),
           !.visleaf = shroud.visleafStack[Len(shroud.visleafStack)],
           !.pending = heap[shroud.visleafStack[Len(shroud.visleafStack)]].portals,
           !.shroudmapDict = @ \cup {shroud.visleafStack[Len(shroud.visleafStack)]},
           !.popped = @ + 1]
    /\ UNCHANGED <<maxWidth, maxHeight, head, portals, heap, numLeaves,
                   generations, last>>

\* The locals once `portal` has been taken from the set and tested against
\* the viewcone: `passed` keeps the tests that were true, with the leaf and
\* the number of the pop they were made in.
tested(sh, portal, within) ==
    [sh EXCEPT !.pending = @ \ {portal},
               !.passed = IF within THEN @ \cup {<<portal, sh.visleaf, sh.popped>>}
                          ELSE @]

\* The body of the for loop: a portal inside the viewcone and not yet
\* processed is marked and the leaf on its other side is pushed.
test_portal_nocone(h, sh, portal, within) ==
    IF portal \notin sh.alreadyProcessedPortals
    THEN [sh EXCEPT
             !.alreadyProcessedPortals = @ \cup {portal},
             !.visleafStack = Append(@, get_other(h, portal, sh.visleaf)),
             !.pushed = Append(@, <<portal, sh.visleaf>>)]
    ELSE sh

test_portal(h, sh, portal, within) ==
    IF within /\ portal \notin sh.alreadyProcessedPortals
    THEN IF get_other(h, portal, sh.visleaf) = None
         THEN [NoShroud EXCEPT !.raised = TRUE]
         ELSE [sh EXCEPT
                  !.alreadyProcessedPortals = @ \cup {portal},
                  !.visleafStack = Append(@, get_other(h, portal, sh.visleaf)),
                  !.pushed = Append(@, <<portal, sh.visleaf>>)]
    ELSE sh

\* One turn of the for loop over visleaf.portals, in the order the set
\* gives them: the viewcone test is a computation on floats whose outcome
\* is left open, within.
TestPortal ==
    /\ shroud.running /\ shroud.pending # {}
    /\ \E portal \in shroud.pending, within \in BOOLEAN :
        shroud' = test_portal(heap, tested(shroud, portal, within), portal, within)
    /\ UNCHANGED <<maxWidth, maxHeight, head, portals, heap, numLeaves,
                   generations, last>>

\* The while loop ends on an empty stack and build_shroud returns.
ReturnShroud ==
    /\ shroud.running /\ shroud.pending = {} /\ shroud.visleafStack = <<>>
    /\ shroud' = [shroud EXCEPT !.running = FALSE]
    /\ UNCHANGED <<maxWidth, maxHeight, head, portals, heap, numLeaves,
                   generations, last>>

\* b.generate_portals() before the first build_shroud: the record of the
\* call keeps only whether it returned.
GenerateBeforeShroud ==
    /\ generations < MaxGenerations
    /\ generations' = generations + 1
    /\ PortalEvent(generate_portals(heap, head, portals))

BuildShroud == StartShroud \/ PopVisleaf \/ TestPortal \/ ReturnShroud

\* The tree is edited and its portals generated before the first
\* build_shroud; from then on the tree is only looked at.
EditBeforeShroud ==
    /\ shroud = NoShroud
    /\ DivideVdf \/ MergeVdf \/ ToggleSolid \/ GenerateBeforeShroud

NextShroud == EditBeforeShroud \/ BuildShroud
SpecShroud == InitPortals /\ [][NextShroud]_vars

\* ------------------------------------------------ build_shroud with its cones
\* The editor snaps every partition to the grid of BLOCK_SIZE, so the tree
\* vismain loads has its coordinates on that grid: the tree of the model
\* keeps them in blocks, and build_shroud works on them in pixels.
pixels(pos) == <<pos[1] * BLOCK_SIZE, pos[2] * BLOCK_SIZE>>

\* The function new_coord_rebaser(base) returns, applied to a point of
\* floats.
leafcoords_from_abscoords(base, absCoords) ==
    <<QSub(absCoords[1], Frac(base[1])), QSub(absCoords[2], Frac(base[2]))>>

\* The locals of build_shroud at the start of its loop. A shroudmap is kept
\* as the set of viewcones it has been filled with, in the coordinates of
\* its leaf: fills only add white pixels, so the pixels lit are those of the
\* fills together.
NoLoop ==
    [raised |-> FALSE, visleafStack |-> <<>>, alreadyProcessedPortals |-> {},
     shroudmapDict |-> [leaf \in {} |-> {}]]

\* shroudmapDict after the fill of visleaf's shroudmap with a viewcone.
filled(shroudmapDict, visleaf, cone) ==
    [leaf \in DOMAIN shroudmapDict \cup {visleaf} |->
        IF leaf = visleaf
        THEN (IF leaf \in DOMAIN shroudmapDict THEN shroudmapDict[leaf] ELSE {})
                 \cup {cone}
        ELSE shroudmapDict[leaf]]

\* The order a run of the program iterates a set of portals in: by identity,
\* upwards or downwards.
RECURSIVE in_order(_, _)
in_order(set, downwards) ==
    IF set = {} THEN <<>>
    ELSE LET portal == CHOOSE p \in set :
                           \A q \in set : IF downwards THEN q <= p ELSE p <= q
         IN  <<portal>> \o in_order(set \ {portal}, downwards)

\* The body of the for loop of build_shroud for one portal, given the
\* results of the two viewcone functions.
push_through(h, st, visleaf, portal, within, restricted) ==
    IF within.raised THEN [st EXCEPT !.raised = TRUE]
    ELSE IF within.value /\ portal \notin st.alreadyProcessedPortals
    THEN IF restricted.raised \/ get_other(h, portal, visleaf) = None
         THEN [st EXCEPT !.raised = TRUE]
         ELSE [st EXCEPT
                  !.alreadyProcessedPortals = @ \cup {portal},
                  !.visleafStack =
                      Append(@, <<get_other(h, portal, visleaf),
                                  restricted.left, restricted.right>>)]
    ELSE st

cone_portal(h, st, visleaf, left, right, portal) ==
    push_through(h, st, visleaf, portal,
        portal_within_viewcone(QPoint(pixels(h[portal].start)),
                               QPoint(pixels(h[portal].end)), left, right),
        restrict_viewcone(h[portal].orientation,
                          QPoint(pixels(h[portal].start)),
                          QPoint(pixels(h[portal].end)), left, right))

\* The for loop of build_shroud over the portals of visleaf, in the order
\* `todo`.
RECURSIVE test_portals(_, _, _, _, _, _)
test_portals(h, st, visleaf, left, right, todo) ==
    IF st.raised \/ todo = <<>> THEN st
    ELSE test_portals(h, cone_portal(h, st, visleaf, left, right, Head(todo)),
                      visleaf, left, right, Tail(todo))

\* One turn of the while loop of build_shroud for the popped entry `top`.
RECURSIVE shroud_loop(_, _, _)
visit(h, st, top, downwards) ==
    test_portals(h,
        [st EXCEPT
            !.visleafStack = SubSeq(@, 1, Len(@) - 1),
            !.shroudmapDict =
                filled(@, top[1],
                    <<<<leafcoords_from_abscoords(
                            pixels(<<h[top[1]].bounds[1], h[top[1]].bounds[2]>>),
                            top[2][1]),
                        leafcoords_from_abscoords(
                            pixels(<<h[top[1]].bounds[1], h[top[1]].bounds[2]>>),
                            top[2][2])>>,
                      <<leafcoords_from_abscoords(
                            pixels(<<h[top[1]].bounds[1], h[top[1]].bounds[2]>>),
                            top[3][1]),
                        leafcoords_from_abscoords(
                            pixels(<<h[top[1]].bounds[1], h[top[1]].bounds[2]>>),
                            top[3][2])>>>>)],
        top[1], top[2], top[3], in_order(h[top[1]].portals, downwards))

\* The while loop of build_shroud.
shroud_loop(h, st, downwards) ==
    IF st.raised \/ st.visleafStack = <<>> THEN st
    ELSE shroud_loop(h, visit(h, st, st.visleafStack[Len(st.visleafStack)],
                              downwards),
                     downwards)

\* build_shroud from the viewcone on: viewPos in pixels and the two rays of
\* the viewcone, in a run that iterates portal sets upwards or downwards.
build_shroud(h, hd, viewPos, viewconeLeft, viewconeRight, downwards) ==
    shroud_loop(h,
        [NoLoop EXCEPT !.visleafStack =
            <<<<leaf_from_coords(h, hd, viewPos[1] \div BLOCK_SIZE,
                                 viewPos[2] \div BLOCK_SIZE),
                viewconeLeft, viewconeRight>>>>],
        downwards)

\* A ray with an origin of whole pixels, stretched to end on whole numbers:
\* its normal keeps its direction, so every sign fill_surface_within_viewcone
\* computes is the same.
whole_ray(ray) ==
    <<<<ray[1][1][1], ray[1][2][1]>>,
      <<ray[1][1][1] + QInt(QMul(Frac(ray[2][1][2] * ray[2][2][2]),
                                 QSub(ray[2][1], ray[1][1]))),
        ray[1][2][1] + QInt(QMul(Frac(ray[2][1][2] * ray[2][2][2]),
                                 QSub(ray[2][2], ray[1][2])))>>>>

\* The white pixels of the shroudmap of a leaf that was filled with `cones`.
lit(h, leaf, cones) ==
    UNION {fill_surface_within_viewcone(
               (h[leaf].bounds[3] - h[leaf].bounds[1]) * BLOCK_SIZE,
               (h[leaf].bounds[4] - h[leaf].bounds[2]) * BLOCK_SIZE,
               whole_ray(cone[1]), whole_ray(cone[2])) : cone \in cones}

\* The viewers of build_shroud: the centres of the blocks of the world.
ViewPixels ==
    {<<x * BLOCK_SIZE + BLOCK_SIZE \div 2, y * BLOCK_SIZE + BLOCK_SIZE \div 2>> :
        <<x, y>> \in ViewPositions}

\* The directions of the rays of a viewcone of fovDegrees = 135: the left
\* ray is the right ray turned by 135 degrees, for the eight right rays
\* along the axes and the diagonals.
Compass ==
    <<<<0, 1>>, <<1, 1>>, <<1, 0>>, <<1, 0 - 1>>, <<0, 0 - 1>>,
      <<0 - 1, 0 - 1>>, <<0 - 1, 0>>, <<0 - 1, 1>>>>
ViewconeRays ==
    {<<Compass[((i + 3) % 8) + 1], Compass[i + 1]>> : i \in 0..7}

\* build_shroud(viewPos, viewTarget) on the same tree in two runs of the
\* program that iterate the portal sets in opposite orders: the record keeps
\* the arguments and the locals each run ends with.
ShroudRuns(viewPos, viewconeLeft, viewconeRight) ==
    /\ last' = [op |-> "shroud", raised |-> FALSE, viewPos |-> viewPos,
                viewconeLeft |-> viewconeLeft, viewconeRight |-> viewconeRight,
                upwards |-> build_shroud(heap, head, viewPos, viewconeLeft,
                                         viewconeRight, FALSE),
                downwards |-> build_shroud(heap, head, viewPos, viewconeLeft,
                                           viewconeRight, TRUE)]
    /\ UNCHANGED <<maxWidth, maxHeight, head, portals, heap, numLeaves,
                   generations, shroud>>

BuildShroudTwice ==
    /\ last.op = "generate" /\ ~last.raised
    /\ \E viewPos \in ViewPixels, rays \in ViewconeRays :
        ShroudRuns(viewPos,
                   <<QPoint(viewPos), QPoint(RayEnd(viewPos, rays[1]))>>,
                   <<QPoint(viewPos), QPoint(RayEnd(viewPos, rays[2]))>>)

\* The tree vismain loads is built in the editor and its portals are
\* generated once, after the load: divisions in range while the tree has
\* fewer than MaxOrderNumLeaves elements, and changes of solid flags.
DivideOrder ==
    \E leaf \in Leaves(heap, head), orientation \in Orientations,
       partition \in Partitions(maxWidth, maxHeight) :
        /\ numLeaves + 2 <= MaxOrderNumLeaves
        /\ InRange(heap[leaf].bounds, orientation, partition)
        /\ TreeCall(divide_leaf(heap, head, numLeaves, leaf, orientation, partition),
                    Event("divide"), Event("divide"))

EditBeforeOrder ==
    /\ last.op \in {"init", "divide", "toggle"}
    /\ DivideOrder \/ ToggleSolid \/ GenerateBeforeShroud

NextOrder == EditBeforeOrder \/ BuildShroudTwice
SpecOrder == InitPortals /\ [][NextOrder]_vars

\* =================================================================== claims
\* The state the last call was made in.
PreElements == Elements(last.heap, last.head)
PreLeaves == Leaves(last.heap, last.head)

\* The integer points of the half-open rectangle b.
Contains(b, x, y) == b[1] <= x /\ x < b[3] /\ b[2] <= y /\ y < b[4]
Points(b) == {<<x, y>> : x \in b[1]..(b[3] - 1), y \in b[2]..(b[4] - 1)}

\* The element that now stands where element `old` of the previous state
\* stood: tree.head, or the same child slot of old's parent.
SlotOf(old) ==
    LET parent == last.heap[old].parent
    IN  IF parent = None THEN head
        ELSE IF last.heap[parent].left = old THEN heap[parent].left
        ELSE heap[parent].right

\* Element e of the previous state is the same object with the same fields,
\* but for its parent's child slot `changed` when e is that parent.
Untouched(e, parent, changed) ==
    /\ e \in DOMAIN heap
    /\ IF e = parent
       THEN \/ heap[e] = [last.heap[e] EXCEPT !.left = changed]
            \/ heap[e] = [last.heap[e] EXCEPT !.right = changed]
       ELSE heap[e] = last.heap[e]

\* ----------------------------------------------------------------------- C1
\* C1: tree.head has parent None, and every other element reachable from
\* tree.head is the left or the right child of its parent, which is itself
\* reachable from tree.head.
C1_ParentLinks ==
    /\ heap[head].parent = None
    /\ \A e \in Elements(heap, head) \ {head} :
        LET p == heap[e].parent
        IN  /\ p # None
            /\ p \in Elements(heap, head)
            /\ IsNode(heap, p)
            /\ (heap[p].left = e \/ heap[p].right = e)

\* A merge has just replaced a node that was not the root, in a tree that
\* was built by two divisions.
C1_Witness ==
    /\ last.op = "merge"
    /\ last.heap[last.leaf].parent \notin {None, last.head}
    /\ Cardinality(Elements(heap, head)) = 3

\* ----------------------------------------------------------------------- C2
\* The bounds of the children of every node are the two halves that the
\* node's orientation and partition name.
PartitionBounds ==
    \A n \in Nodes(heap, head) :
        LET b == heap[n].bounds
            part == heap[n].partition
            lb == heap[heap[n].left].bounds
            rb == heap[heap[n].right].bounds
        IN  IF heap[n].orientation = HORIZ
            THEN lb = <<b[1], b[2], b[3], part>> /\ rb = <<b[1], part, b[3], b[4]>>
            ELSE lb = <<b[1], b[2], part, b[4]>> /\ rb = <<part, b[2], b[3], b[4]>>

\* The two children of every node cover the node's rectangle and do not
\* overlap.
ChildrenTile ==
    \A n \in Nodes(heap, head) :
        LET lp == Points(heap[heap[n].left].bounds)
            rp == Points(heap[heap[n].right].bounds)
        IN  lp \cup rp = Points(heap[n].bounds) /\ lp \cap rp = {}

\* C2: in every state every node's children have the bounds its partition
\* names, so they cover the node's rectangle without overlap.
C2_ChildrenPartitionNode == PartitionBounds /\ ChildrenTile

\* ----------------------------------------------------------------------- C3
\* C3: every element reachable from tree.head has bounds inside the world
\* with left < right and top < bottom, and every node's partition lies
\* strictly between its bounds on the split axis.
C3_BoundsInWorld ==
    \A e \in Elements(heap, head) :
        LET b == heap[e].bounds
        IN  /\ 0 <= b[1] /\ b[1] < b[3] /\ b[3] <= maxWidth
            /\ 0 <= b[2] /\ b[2] < b[4] /\ b[4] <= maxHeight
            /\ IsNode(heap, e) =>
                   InRange(b, heap[e].orientation, heap[e].partition)

\* ----------------------------------------------------------------------- C4
\* C4: for every point of the world, leaf_from_coords returns a leaf of the
\* tree whose bounds contain the point, and no other leaf contains it.
C4_PointLocation ==
    \A x \in 0..(maxWidth - 1), y \in 0..(maxHeight - 1) :
        LET L == leaf_from_coords(heap, head, x, y)
        IN  /\ L \in Leaves(heap, head)
            /\ Contains(heap[L].bounds, x, y)
            /\ \A M \in Leaves(heap, head) \ {L} : ~Contains(heap[M].bounds, x, y)

\* A tree of three leaves with a vertical and a horizontal partition.
C4_Witness ==
    /\ Cardinality(Leaves(heap, head)) = 3
    /\ \E n, m \in Nodes(heap, head) :
        heap[n].orientation = VERTI /\ heap[m].orientation = HORIZ

\* ----------------------------------------------------------------------- C5
\* C5: after divide_leaf on a leaf with a partition strictly inside its
\* bounds, the leaf's place holds a new node with the given orientation and
\* partition and the leaf's bounds, whose two children are new solid leaves;
\* the divided leaf is no longer in the tree and every other element is as
\* it was.
C5_DivideReplacesLeaf ==
    (last.op = "divide" /\ last.inRange)
    =>
    (~last.raised) /\
    LET old == last.leaf
        parent == last.heap[old].parent
        node == SlotOf(old)
    IN  /\ node \notin DOMAIN last.heap
        /\ IsNode(heap, node)
        /\ heap[node].orientation = last.orientation
        /\ heap[node].partition = last.partition
        /\ heap[node].bounds = last.heap[old].bounds
        /\ heap[node].parent = parent
        /\ \A c \in {heap[node].left, heap[node].right} :
            /\ c \notin DOMAIN last.heap
            /\ IsLeaf(heap, c)
            /\ heap[c].solid = TRUE
            /\ heap[c].parent = node
        /\ heap[node].left # heap[node].right
        /\ old \notin Elements(heap, head)
        /\ Elements(heap, head) =
               (PreElements \ {old}) \cup {node, heap[node].left, heap[node].right}
        /\ \A e \in PreElements \ {old} : Untouched(e, parent, node)

\* A non-solid leaf that is not the root has just been divided.
C5_Witness ==
    /\ last.op = "divide"
    /\ last.inRange
    /\ ~last.raised
    /\ last.heap[last.leaf].parent # None
    /\ ~last.heap[last.leaf].solid
    /\ last.heap[last.heap[last.leaf].parent].right = last.leaf

\* ----------------------------------------------------------------------- C6
\* What merge_leaf does for a leaf with a parent P, but for the solidity of
\* the replacement: P's place holds one new leaf with P's bounds, and the
\* leaf, its sibling and the sibling's subtree are out of the tree.
MergeReplacesParent(solid) ==
    (last.op = "merge" /\ last.heap[last.leaf].parent # None)
    =>
    LET P == last.heap[last.leaf].parent
        PP == last.heap[P].parent
        new == SlotOf(P)
    IN  /\ ~last.raised
        /\ new \notin DOMAIN last.heap
        /\ IsLeaf(heap, new)
        /\ heap[new].solid = solid
        /\ heap[new].bounds = last.heap[P].bounds
        /\ heap[new].parent = PP
        /\ Elements(heap, head) =
               (PreElements \ Elements(last.heap, P)) \cup {new}
        /\ last.leaf \notin Elements(heap, head)
        /\ \A e \in PreElements \ Elements(last.heap, P) : Untouched(e, PP, new)

\* C6 as claimed: the replacement leaf is non-solid.
C6_MergeYieldsNonSolid == MergeReplacesParent(FALSE)

\* C6 as amended: the replacement leaf is solid, as every leaf that
\* BSPLeaf.__init__ creates is.
C6_MergeYieldsSolid == MergeReplacesParent(TRUE)

\* A merge on a non-solid leaf has just collapsed its sibling's subtree with it.
C6_Witness ==
    /\ last.op = "merge"
    /\ last.heap[last.leaf].parent # None
    /\ ~last.heap[last.leaf].solid
    /\ LET P == last.heap[last.leaf].parent
           sibling == IF last.heap[P].left = last.leaf
                      THEN last.heap[P].right ELSE last.heap[P].left
       IN  IsNode(last.heap, sibling)

\* ----------------------------------------------------------------------- C7
\* C7: divide_leaf with a partition that is not strictly between the leaf's
\* bounds on the split axis fails and leaves the tree unchanged.
C7_OutOfRangeDivideFails ==
    (last.op = "divide" /\ ~last.inRange)
    => (last.raised /\ head = last.head /\ heap = last.heap)

\* ----------------------------------------------------------------------- C8
\* What the constructor leaves, but for the solidity of the root leaf: head
\* is a leaf with parent None covering the world, and no portals.
ConstructedTree(solid) ==
    (last.op = "init")
    =>  /\ maxWidth > 0 /\ maxHeight > 0
        /\ IsLeaf(heap, head)
        /\ heap[head].parent = None
        /\ heap[head].bounds = <<0, 0, maxWidth, maxHeight>>
        /\ heap[head].solid = solid
        /\ Elements(heap, head) = {head}
        /\ portals = {}

\* C8 as claimed: the root leaf is non-solid.
C8_InitialLeafNonSolid == ConstructedTree(FALSE)

\* C8 as amended: the root leaf is solid.
C8_InitialLeafSolid == ConstructedTree(TRUE)

\* The tree has just been constructed, with a world wider than it is high.
C8_Witness == last.op = "init" /\ maxWidth > maxHeight /\ maxHeight > 1

\* ----------------------------------------------------------------------- C9
\* C9 as claimed: merge_leaf on a root that is a leaf leaves a single
\* non-solid leaf covering the world.
C9_MergeRootResets ==
    (last.op = "merge" /\ IsLeaf(last.heap, last.head))
    =>  /\ IsLeaf(heap, head)
        /\ ~heap[head].solid
        /\ heap[head].bounds = <<0, 0, maxWidth, maxHeight>>

\* C9 as amended: merge_leaf on a root that is a leaf changes nothing; the
\* tree stays the same single leaf covering the world, with the solid flag
\* it had.
C9_MergeRootIsNoOp ==
    (last.op = "merge" /\ IsLeaf(last.heap, last.head))
    =>  /\ ~last.raised
        /\ head = last.head
        /\ heap = last.heap
        /\ numLeaves = last.numLeaves
        /\ IsLeaf(heap, head)
        /\ heap[head].bounds = <<0, 0, maxWidth, maxHeight>>
        /\ heap[head].solid = last.heap[last.head].solid

\* merge_leaf has just been called on a non-solid root leaf that an earlier
\* merge had put in place.
C9_Witness ==
    /\ last.op = "merge"
    /\ IsLeaf(last.heap, last.head)
    /\ ~last.heap[last.head].solid
    /\ numLeaves > 1

\* ---------------------------------------------------------------------- C10
\* C10 as claimed: both leaves of every portal in tree.portals are leaves
\* reachable from tree.head.
C10_PortalsNameTreeLeaves ==
    \A p \in portals :
        {heap[p].leaf1, heap[p].leaf2} \subseteq Leaves(heap, head)

\* C10 as amended: divide_leaf and merge_leaf leave tree.portals and its
\* portals as they were, and right after generate_portals both leaves of
\* every portal in tree.portals are leaves reachable from tree.head.
C10_PortalsAwaitRegeneration ==
    /\ last.op \in {"divide", "merge"} =>
        /\ portals = last.portals
        /\ \A p \in portals : heap[p] = last.heap[p]
    /\ last.op = "generate" =>
        /\ ~last.raised
        /\ \A p \in portals :
            {heap[p].leaf1, heap[p].leaf2} \subseteq Leaves(heap, head)

\* A tree edit has just removed a leaf that a portal of tree.portals names.
C10_Witness ==
    /\ last.op \in {"divide", "merge"}
    /\ ~last.raised
    /\ \E p \in portals :
        /\ {heap[p].leaf1, heap[p].leaf2} \subseteq PreLeaves
        /\ ~({heap[p].leaf1, heap[p].leaf2} \subseteq Leaves(heap, head))

\* ---------------------------------------------------------------------- C11
VisLeaves == Range(iter_visleaves(heap, head))

\* The unordered pairs {V, N} of distinct non-solid leaves with N among the
\* neighbors of V.
VisleafPairs ==
    {{V, N} : <<V, N>> \in
        {pr \in VisLeaves \X VisLeaves :
            pr[1] # pr[2] /\ pr[2] \in Range(iter_neighbors(heap, pr[1]))}}

\* C11: right after generate_portals on a tree built with in-range
\* divisions, tree.portals holds exactly one portal for each pair of
\* neighboring visleaves and none for any other pair, and every portal is in
\* the portals set of exactly two leaves of the tree, its leaf1 and leaf2.
C11_OnePortalPerPair ==
    (last.op = "generate")
    =>  /\ ~last.raised
        /\ \A p \in portals :
            /\ p \in DOMAIN heap
            /\ IsPortal(heap, p)
            /\ heap[p].leaf1 # heap[p].leaf2
            /\ {heap[p].leaf1, heap[p].leaf2} \in VisleafPairs
            /\ {L \in Leaves(heap, head) : p \in heap[L].portals}
                   = {heap[p].leaf1, heap[p].leaf2}
        /\ \A pair \in VisleafPairs :
            Cardinality({p \in portals :
                            {heap[p].leaf1, heap[p].leaf2} = pair}) = 1

\* generate_portals has just made three portals in a tree where one leaf
\* has two neighbors on the same side, after an earlier generation.
C11_Witness ==
    /\ last.op = "generate"
    /\ last.portals # {}
    /\ Cardinality(portals) = 3
    /\ \E L \in VisLeaves, d \in Directions :
           Len(iter_directed_neighbors(heap, L, d)) = 2

\* ---------------------------------------------------------------------- C12
\* Leaves with bounds a and b share a vertical edge: one's right bound is the
\* other's left bound and their vertical extents overlap.
LeftRightNeighbors(a, b) ==
    /\ (a[3] = b[1] \/ b[3] = a[1])
    /\ ~(a[4] <= b[2] \/ a[2] >= b[4])

\* Leaves with bounds a and b share a horizontal edge.
TopBottomNeighbors(a, b) ==
    /\ (a[4] = b[2] \/ b[4] = a[2])
    /\ ~(a[3] <= b[1] \/ a[1] >= b[3])

\* C12: every portal generate_portals has just made joins two distinct
\* non-solid leaves and its segment is their shared boundary: vertical at the
\* shared x from the greater top to the lesser bottom for left/right
\* neighbors, horizontal at the shared y from the greater left to the lesser
\* right for top/bottom neighbors; BSPPortal on the two leaves in the other
\* order gives the same orientation, start and end.
C12_PortalIsSharedBoundary ==
    (last.op = "generate" /\ ~last.raised)
    =>  \A p \in portals :
            LET A == heap[p].leaf1
                B == heap[p].leaf2
                a == heap[A].bounds
                b == heap[B].bounds
                start == heap[p].start
                end == heap[p].end
                swapped == BSPPortal(heap, B, A)
            IN  /\ A # B
                /\ ~heap[A].solid /\ ~heap[B].solid
                /\ LeftRightNeighbors(a, b) # TopBottomNeighbors(a, b)
                /\ LeftRightNeighbors(a, b) =>
                       /\ heap[p].orientation = VERTI
                       /\ start[1] = end[1]
                       /\ start[1] = (IF a[3] = b[1] THEN a[3] ELSE b[3])
                       /\ start[2] = Max2(a[2], b[2])
                       /\ end[2] = Min2(a[4], b[4])
                       /\ start[2] < end[2]
                /\ TopBottomNeighbors(a, b) =>
                       /\ heap[p].orientation = HORIZ
                       /\ start[2] = end[2]
                       /\ start[2] = (IF a[4] = b[2] THEN a[4] ELSE b[4])
                       /\ start[1] = Max2(a[1], b[1])
                       /\ end[1] = Min2(a[3], b[3])
                       /\ start[1] < end[1]
                /\ ~swapped.raised
                /\ swapped.obj.orientation = heap[p].orientation
                /\ swapped.obj.start = start
                /\ swapped.obj.end = end

\* generate_portals has just made a vertical and a horizontal portal, one of
\* them shorter than the side of one of its leaves, one of them with the
\* right-hand leaf as leaf1.
C12_Witness ==
    /\ last.op = "generate"
    /\ \E p, q \in portals :
        /\ heap[p].orientation = VERTI /\ heap[q].orientation = HORIZ
        /\ heap[p].end[2] - heap[p].start[2]
               < heap[heap[p].leaf1].bounds[4] - heap[heap[p].leaf1].bounds[2]
        /\ heap[heap[p].leaf1].bounds[1] = heap[p].start[1]

\* ---------------------------------------------------------------------- C13
\* The (leaf1, leaf2, start, end) tuples of the portals in set ps of heap h.
PortalTuples(h, ps) ==
    {<<h[p].leaf1, h[p].leaf2, h[p].start, h[p].end>> : p \in ps}

\* tree.portals and every visleaf's portals set hold one portal per tuple.
OnePortalPerTuple(h, hd, ps) ==
    /\ Cardinality(ps) = Cardinality(PortalTuples(h, ps))
    /\ \A v \in Range(iter_visleaves(h, hd)) :
           Cardinality(h[v].portals) = Cardinality(PortalTuples(h, h[v].portals))

\* C13: a generate_portals called right after a generate_portals leaves the
\* same tuples in tree.portals and in every visleaf's portals set, with one
\* portal per tuple, so that no portal of the first generation is left
\* beside those of the second.
C13_GenerateTwiceSame ==
    [][ (last.op = "generate" /\ ~last.raised /\ last'.op = "generate")
        =>  /\ ~last'.raised
            /\ PortalTuples(heap', portals') = PortalTuples(heap, portals)
            /\ \A v \in Range(iter_visleaves(heap, head)) :
                   PortalTuples(heap', heap'[v].portals)
                       = PortalTuples(heap, heap[v].portals)
            /\ OnePortalPerTuple(heap', head', portals')
            /\ portals' \subseteq DOMAIN heap'
            /\ \A v \in Range(iter_visleaves(heap', head')) :
                   heap'[v].portals \subseteq portals'
      ]_vars

\* generate_portals has just been called on a tree of three visleaves whose
\* portals were those a generation leaves: the same tuples as now, in
\* tree.portals and in every visleaf's set.
C13_Witness ==
    /\ last.op = "generate"
    /\ Cardinality(VisLeaves) = 3
    /\ Cardinality(last.portals) = 3
    /\ Range(iter_visleaves(last.heap, last.head)) = VisLeaves
    /\ OnePortalPerTuple(last.heap, last.head, last.portals)
    /\ PortalTuples(last.heap, last.portals) = PortalTuples(heap, portals)
    /\ \A v \in VisLeaves :
        /\ last.heap[v].portals \subseteq last.portals
        /\ PortalTuples(last.heap, last.heap[v].portals)
               = PortalTuples(heap, heap[v].portals)

\* ---------------------------------------------------------------------- C14
\* The leaves of the tree that lie against side `direction` of leaf L with a
\* strict overlap of the extent along that side.
AdjacentLeaves(L, direction) ==
    LET s == heap[L].bounds
    IN  {N \in Leaves(heap, head) :
            LET b == heap[N].bounds
            IN  IF direction = "L"
                THEN b[3] = s[1] /\ ~(b[4] <= s[2] \/ b[2] >= s[4])
                ELSE IF direction = "R"
                THEN b[1] = s[3] /\ ~(b[4] <= s[2] \/ b[2] >= s[4])
                ELSE IF direction = "T"
                THEN b[4] = s[2] /\ ~(b[3] <= s[1] \/ b[1] >= s[3])
                ELSE b[2] = s[4] /\ ~(b[3] <= s[1] \/ b[1] >= s[3])}

WorldPoints == (0..(maxWidth - 1)) \X (0..(maxHeight - 1))

\* The values of t for which a + t * d lies strictly between lo and hi, as
\* the strict lower and upper bounds they put on t.
LowerBounds(a, d, lo, hi) ==
    IF d > 0 THEN {<<lo - a, d>>}
    ELSE IF d < 0 THEN {FracDiv(Frac(hi - a), Frac(d))} ELSE {}
UpperBounds(a, d, lo, hi) ==
    IF d > 0 THEN {<<hi - a, d>>}
    ELSE IF d < 0 THEN {FracDiv(Frac(lo - a), Frac(d))} ELSE {}

\* The open segment from a to b passes through the interior of the
\* rectangle `bounds`: some point a + t * (b - a) with 0 < t < 1 lies
\* strictly inside it.
CrossesInterior(a, b, bounds) ==
    LET dx == b[1] - a[1]
        dy == b[2] - a[2]
        lows == {Frac(0)} \cup LowerBounds(a[1], dx, bounds[1], bounds[3])
                    \cup LowerBounds(a[2], dy, bounds[2], bounds[4])
        ups == {Frac(1)} \cup UpperBounds(a[1], dx, bounds[1], bounds[3])
                   \cup UpperBounds(a[2], dy, bounds[2], bounds[4])
    IN  /\ dx = 0 => (bounds[1] < a[1] /\ a[1] < bounds[3])
        /\ dy = 0 => (bounds[2] < a[2] /\ a[2] < bounds[4])
        /\ \A l \in lows, u \in ups : FracLess(l, u)

SolidLeaves == {L \in Leaves(heap, head) : heap[L].solid}

\* C15: on every tree built with in-range divisions and for all distinct
\* points a, b inside the world, segment_collision(a, b) is None exactly
\* when the open segment passes through the interior of no solid leaf, and
\* a leaf it returns is a solid leaf whose interior the segment passes
\* through.
C15_CollisionIffCrossesSolid ==
    \A a \in WorldPoints, b \in WorldPoints :
        a # b =>
        LET r == segment_collision(heap, head, a, b)
        IN  /\ (r = None) <=>
                   (\A S \in SolidLeaves : ~CrossesInterior(a, b, heap[S].bounds))
            /\ r # None =>
                   (r \in SolidLeaves /\ CrossesInterior(a, b, heap[r].bounds))

\* The case the claim names: a segment that starts in a non-solid leaf and
\* ends exactly on the boundary of the solid leaf to its right is reported
\* as a collision with that leaf.
C15_EndsOnBoundary ==
    /\ IsNode(heap, head)
    /\ heap[head].orientation = VERTI
    /\ IsLeaf(heap, heap[head].left) /\ ~heap[heap[head].left].solid
    /\ IsLeaf(heap, heap[head].right) /\ heap[heap[head].right].solid
    /\ maxHeight >= 2
    /\ segment_collision(heap, head, <<heap[head].partition - 1, 0>>,
                         <<heap[head].partition, 1>>) = heap[head].right

\* ---------------------------------------------------------------------- C16
\* The root is a vertical partition between a non-solid leaf on the left and
\* a solid leaf on the right, in a world at least two high.
VisleafBesideSolid ==
    /\ IsNode(heap, head)
    /\ heap[head].orientation = VERTI
    /\ IsLeaf(heap, heap[head].left) /\ ~heap[heap[head].left].solid
    /\ IsLeaf(heap, heap[head].right) /\ heap[heap[head].right].solid
    /\ maxHeight >= 2

\* C16: segment_collision is not symmetric.  On every tree that is a
\* non-solid leaf beside a solid leaf, for a one column left of the
\* partition and b on the partition one row further down,
\* segment_collision(a, b) is the solid leaf and segment_collision(b, a) is
\* None, while without the adjustment of the start point the call from b
\* to a gives the solid leaf too.
C16_CollisionNotSymmetric ==
    VisleafBesideSolid =>
        \A y \in 0..(maxHeight - 2) :
            LET a == <<heap[head].partition - 1, y>>
                b == <<heap[head].partition, y + 1>>
            IN  /\ segment_collision(heap, head, a, b) = heap[head].right
                /\ segment_collision(heap, head, b, a) = None
                /\ segment_collision_nonudge(heap, head, b, a) = heap[head].right

\* Such a tree, with the partition more than one column into the world.
C16_Witness ==
    /\ VisleafBesideSolid
    /\ heap[head].partition > 1

\* ---- C18
\* The number of non-solid leaves among the first i - 1 elements of els.
VisleavesBefore(h, els, i) ==
    Cardinality({j \in 1..(i - 1) : IsLeaf(h, els[j]) /\ ~h[els[j]].solid})

\* Object e as to_vdf may leave it: everything but id and leafID as before.
SameButIds(before, after) ==
    /\ DOMAIN after = DOMAIN before
    /\ \A f \in DOMAIN before \ {"id", "leafID"} : after[f] = before[f]

ToVdfNumbering(h, els, BSP) ==
    /\ h[els[1]].id = 0
    /\ Len(BSP.elements) = Len(els)
    /\ \A i \in 1..Len(els) :
        /\ h[els[i]].id = i - 1
        /\ BSP.elements[i][1] = str_int(i - 1)
        /\ IsLeaf(h, els[i]) /\ h[els[i]].solid => h[els[i]].leafID = 0 - 1
        /\ IsLeaf(h, els[i]) /\ ~h[els[i]].solid
               => h[els[i]].leafID = VisleavesBefore(h, els, i)
        /\ IsNode(h, els[i])
               => /\ int(BSP.elements[i][2].left)
                        = [raised |-> FALSE, value |-> h[h[els[i]].left].id]
                  /\ int(BSP.elements[i][2].right)
                        = [raised |-> FALSE, value |-> h[h[els[i]].right].id]

\* C18: after to_vdf the non-solid leaves carry the leafIDs 0..n-1 in
\* iter_elements order, every solid leaf has leafID -1, the elements carry
\* the ids 0..m-1 in iter_elements order with the head at 0, each emitted
\* node record names its left and right children by their ids, and nothing
\* but ids and leafIDs has changed.
C18_ToVdfRenumbers ==
    last.op = "to_vdf" =>
        /\ ToVdfNumbering(heap, iter_elements(heap, head), last.BSP)
        /\ head = last.head
        /\ DOMAIN heap = DOMAIN last.heap
        /\ \A e \in DOMAIN heap : SameButIds(last.heap[e], heap[e])

\* C18 happens: to_vdf has renumbered a tree with a node, a solid leaf and
\* two non-solid leaves, one of which had another leafID before.
C18_Witness ==
    /\ last.op = "to_vdf"
    /\ \E e \in Leaves(heap, head) : heap[e].solid
    /\ Cardinality({e \in Leaves(heap, head) : ~heap[e].solid}) >= 2
    /\ \E e \in Leaves(heap, head) :
           ~heap[e].solid /\ last.heap[e].leafID # heap[e].leafID
    /\ \E e \in Leaves(heap, head) :
           heap[e].solid /\ last.heap[e].leafID # heap[e].leafID

\* ---- C17
\* Element a of heap h1 and element b of heap h2 head the same subtree:
\* shape, bounds, orientations, partitions, solid flags, leafIDs, and each
\* child's parent is its node.
RECURSIVE SameSubtree(_, _, _, _)
SameSubtree(h1, a, h2, b) ==
    /\ h1[a].kind = h2[b].kind
    /\ h1[a].bounds = h2[b].bounds
    /\ IF IsLeaf(h1, a)
       THEN /\ h1[a].solid = h2[b].solid
            /\ h1[a].leafID = h2[b].leafID
       ELSE /\ h1[a].orientation = h2[b].orientation
            /\ h1[a].partition = h2[b].partition
            /\ h2[h2[b].left].parent = b
            /\ h2[h2[b].right].parent = b
            /\ SameSubtree(h1, h1[a].left, h2, h2[b].left)
            /\ SameSubtree(h1, h1[a].right, h2, h2[b].right)

SameTree(h, hd, t) ==
    /\ ~t.raised
    /\ t.heap[t.head].parent = None
    /\ SameSubtree(h, hd, t.heap, t.head)

SameSize(w, h, t) ==
    /\ ~t.raised
    /\ t.maxWidth = PyInt(w)
    /\ t.maxHeight = PyInt(h)

\* C17: from_vdf of what to_vdf wrote is a tree with the maxWidth and
\* maxHeight of the tree written, the same shape, bounds, orientations,
\* partitions, solid flags and renumbered leafIDs, head parent None and
\* every child's parent its node.
C17_RoundTrip ==
    last.op = "to_vdf" =>
        /\ SameTree(heap, head, from_vdf(numLeaves, last.BSP))
        /\ SameSize(maxWidth, maxHeight, from_vdf(numLeaves, last.BSP))

\* C17, the part that holds: the elements of the tree read back are those
\* of the tree written, and maxWidth and maxHeight are the strings written.
C17_ElementsRoundTrip ==
    last.op = "to_vdf" =>
        /\ SameTree(heap, head, from_vdf(numLeaves, last.BSP))
        /\ from_vdf(numLeaves, last.BSP).maxWidth = PyStr(str_int(maxWidth))
        /\ from_vdf(numLeaves, last.BSP).maxHeight = PyStr(str_int(maxHeight))

\* C17_ElementsRoundTrip happens: a tree with nodes, solid and non-solid
\* leaves was written.
C17_ElementsWitness ==
    /\ last.op = "to_vdf"
    /\ Cardinality(Nodes(heap, head)) >= 2
    /\ \E e \in Leaves(heap, head) : heap[e].solid
    /\ \E e \in Leaves(heap, head) : ~heap[e].solid

\* ---- C19
\* A mapping without key k.
WithoutKey(d, k) == [x \in DOMAIN d \ {k} |-> d[x]]

\* The values that name no record of m records, near the valid ones.
DanglingIds(m) == ((0 - m - 1)..(m + 1)) \ (0..(m - 1))

\* The node records of the written mapping.
NodeRecords(BSP) ==
    {i \in 1..Len(BSP.elements) : BSP.elements[i][2].type = StrBSPNode}

\* Reading the written mapping with child field f of node record i set to v.
ReadWithChild(n, BSP, i, f, v) ==
    from_vdf(n, [BSP EXCEPT !.elements[i][2][f] = str_int(v)])

StrOther == <<"B", "S", "P">>

BadTypesFail(n, BSP) ==
    \A i \in 1..Len(BSP.elements) :
        from_vdf(n, [BSP EXCEPT !.elements[i][2].type = StrOther]).raised

MissingKeysFail(n, BSP) ==
    /\ \A k \in DOMAIN BSP : from_vdf(n, WithoutKey(BSP, k)).raised
    /\ \A i \in 1..Len(BSP.elements) :
        /\ \A k \in DOMAIN BSP.elements[i][2] :
               from_vdf(n, [BSP EXCEPT !.elements[i][2] = WithoutKey(@, k)]).raised
        /\ \A k \in DOMAIN BSP.elements[i][2].bounds :
               from_vdf(n, [BSP EXCEPT !.elements[i][2].bounds =
                                          WithoutKey(@, k)]).raised

\* C19: from_vdf raises when a child field of a node record names no
\* record (any value outside 0..m-1, negative ones included), when a record
\* has a type other than BSPNode and BSPLeaf, and when a key is missing.
C19_FromVdfFails ==
    last.op = "to_vdf" =>
        /\ \A i \in NodeRecords(last.BSP), f \in {"left", "right"},
              v \in DanglingIds(Len(last.BSP.elements)) :
               ReadWithChild(numLeaves, last.BSP, i, f, v).raised
        /\ BadTypesFail(numLeaves, last.BSP)
        /\ MissingKeysFail(numLeaves, last.BSP)

\* C19, the part that holds: a child value of m or more or below -m, a
\* type other than BSPNode and BSPLeaf, and a missing key make from_vdf
\* raise; a child value in -m..-1 is read as the record m positions later
\* and from_vdf returns a tree.
C19_OtherFailures ==
    last.op = "to_vdf" =>
        /\ \A i \in NodeRecords(last.BSP), f \in {"left", "right"},
              v \in DanglingIds(Len(last.BSP.elements)) :
               ReadWithChild(numLeaves, last.BSP, i, f, v).raised
                   <=> (v >= Len(last.BSP.elements)
                        \/ v < 0 - Len(last.BSP.elements))
        /\ BadTypesFail(numLeaves, last.BSP)
        /\ MissingKeysFail(numLeaves, last.BSP)

\* C19_OtherFailures happens: a tree with two nodes was written.
C19_OtherWitness ==
    /\ last.op = "to_vdf"
    /\ Cardinality(NodeRecords(last.BSP)) >= 2

\* ---- C20
\* No portal is in the record of pushes twice.
PushedOnce(pushed) ==
    \A i, j \in 1..Len(pushed) : pushed[i][1] = pushed[j][1] => i = j

C20_PushedOnce ==
    /\ PushedOnce(shroud.pushed)
    /\ Len(shroud.pushed) = Cardinality(shroud.alreadyProcessedPortals)
    /\ ~shroud.raised
    /\ shroud.popped <= Len(shroud.pushed) + 1
    /\ shroud.popped <= Cardinality({p \in DOMAIN heap : IsPortal(heap, p)}) + 1
    /\ generations = 1 => shroud.popped <= Cardinality(portals) + 1

\* C20_PushedOnce happens: a build_shroud has returned after going through
\* two portals, having met a processed portal again from its other side.
C20_PushedWitness ==
    /\ ~shroud.running
    /\ Len(shroud.pushed) >= 2
    /\ shroud.popped = 3

\* ---- C27
\* C27: after generate_portals returns, every leaf of the tree, solid or
\* not, holds only portals of tree.portals, and a solid leaf holds none.
C27_LeafPortalsCurrent ==
    (last.op = "generate" /\ ~last.raised) =>
        \A leaf \in Leaves(heap, head) :
            /\ heap[leaf].portals \subseteq portals
            /\ heap[leaf].solid => heap[leaf].portals = {}

\* C27, the part that holds: after generate_portals returns, every
\* non-solid leaf holds only portals of tree.portals.
C27_VisleafPortalsCurrent ==
    (last.op = "generate" /\ ~last.raised) =>
        \A leaf \in Leaves(heap, head) :
            ~heap[leaf].solid => heap[leaf].portals \subseteq portals

\* C27_VisleafPortalsCurrent happens: a second generate_portals has
\* returned on a tree with portals and a leaf that holds an earlier portal.
C27_VisleafWitness ==
    /\ last.op = "generate" /\ ~last.raised
    /\ generations = 2
    /\ portals # {}
    /\ \E leaf \in Leaves(heap, head) : ~(heap[leaf].portals \subseteq portals)

\* ---- C28
\* The directions in which leaf A is a neighbor of leaf B.
RelatedDirections(A, B) ==
    {direction \in Directions : is_directed_neighbor_of(heap, A, B, direction)}

\* C28: A is a left neighbor of B exactly when B is a right neighbor of A,
\* A is a top neighbor of B exactly when B is a bottom neighbor of A, two
\* leaves are related in at most one direction and no leaf is its own
\* neighbor.
C28_NeighborsSymmetric ==
    \A A \in Leaves(heap, head), B \in Leaves(heap, head) :
        /\ is_directed_neighbor_of(heap, A, B, "L")
               <=> is_directed_neighbor_of(heap, B, A, "R")
        /\ is_directed_neighbor_of(heap, A, B, "T")
               <=> is_directed_neighbor_of(heap, B, A, "B")
        /\ Cardinality(RelatedDirections(A, B)) <= 1
        /\ RelatedDirections(A, A) = {}

\* C28 happens: a tree where a leaf has a left neighbor across two levels
\* of the tree and another pair of leaves lies one above the other.
C28_Witness ==
    /\ \E A \in Leaves(heap, head), B \in Leaves(heap, head) :
           /\ is_directed_neighbor_of(heap, A, B, "L")
           /\ heap[A].parent # heap[B].parent
    /\ \E A \in Leaves(heap, head), B \in Leaves(heap, head) :
           is_directed_neighbor_of(heap, A, B, "T")

\* ---- C29
\* C29: any two distinct non-solid leaves of the tree have distinct leafIDs.
C29_DistinctLeafIDs ==
    \A A \in Leaves(heap, head), B \in Leaves(heap, head) :
        (A # B /\ ~heap[A].solid /\ ~heap[B].solid)
            => heap[A].leafID # heap[B].leafID

\* C29, the part that holds: two distinct non-solid leaves share no leafID
\* other than the -1 that to_vdf gave them while they were solid.
C29_DistinctUnlessUnnumbered ==
    \A A \in Leaves(heap, head), B \in Leaves(heap, head) :
        (A # B /\ ~heap[A].solid /\ ~heap[B].solid)
            => \/ heap[A].leafID # heap[B].leafID
               \/ heap[A].leafID = 0 - 1

\* C29_DistinctUnlessUnnumbered happens: a non-solid leaf numbered 0 by
\* to_vdf stands beside a non-solid leaf made by a later division.
C29_UnlessWitness ==
    /\ Cardinality(Leaves(heap, head)) >= 3
    /\ \E A \in Leaves(heap, head) : ~heap[A].solid /\ heap[A].leafID = 0
    /\ \E A \in Leaves(heap, head) : ~heap[A].solid /\ heap[A].leafID >= 3

C22_OtherKeysAreVisleaves ==
    generations = 1 =>
        \A key \in shroud.shroudmapDict :
            /\ key \in Leaves(heap, head)
            /\ key # shroud.playerLeaf => ~heap[key].solid

\* C22_OtherKeysAreVisleaves happens: a build_shroud has returned three
\* keys on a tree whose portals were generated once.
C22_OtherWitness ==
    /\ generations = 1
    /\ ~shroud.running
    /\ Cardinality(shroud.shroudmapDict) >= 3

\* ---- C21
\* The leaves reached from the leaves S through portals whose viewcone
\* test was true in the leaf they were met in.
RECURSIVE ReachedThrough(_, _, _)
ReachedThrough(h, passed, S) ==
    LET T == S \cup {get_other(h, t[1], t[2]) : t \in {u \in passed : u[2] \in S}}
    IN  IF T = S THEN S ELSE ReachedThrough(h, passed, T)

\* C21: the mapping build_shroud returns has the leaf of the viewer as a
\* key, and the leaf behind every portal of that leaf that passed the
\* viewcone test with the initial cone; every other key is reached from the
\* leaf of the viewer through portals that passed the viewcone test in the
\* leaf they were met in.
C21_ShroudKeys ==
    /\ shroud.shroudmapDict \subseteq
           ReachedThrough(heap, shroud.passed, {shroud.playerLeaf})
    /\ (~shroud.running /\ ~shroud.raised /\ shroud.playerLeaf # None) =>
           /\ shroud.playerLeaf \in shroud.shroudmapDict
           /\ \A t \in shroud.passed :
                  t[3] = 1 => get_other(heap, t[1], t[2]) \in shroud.shroudmapDict

\* C21 happens: a build_shroud has returned in which a portal of the leaf
\* of the viewer passed the test, another did not, and a third leaf was
\* reached through a second portal.
C21_Witness ==
    /\ ~shroud.running /\ shroud.playerLeaf # None
    /\ \E t \in shroud.passed : t[3] = 1
    /\ \E p \in heap[shroud.playerLeaf].portals :
           \A t \in shroud.passed : t[1] # p
    /\ \E t \in shroud.passed : t[3] = 2
    /\ Cardinality(shroud.shroudmapDict) = 3

\* ---- C23
\* The pixels of a surface that lie on the inner side of both rays.
InsidePixels(surfWidth, surfHeight, viewconeLeft, viewconeRight) ==
    {pixel \in (0..(surfWidth - 1)) \X (0..(surfHeight - 1)) :
        /\ sign(dot(normal_from_lineseg(viewconeLeft),
                    rebaser(viewconeLeft[1], pixel))) = 0 - 1
        /\ sign(dot(normal_from_lineseg(viewconeRight),
                    rebaser(viewconeLeft[1], pixel))) = 1}

\* C23: after fill_surface_within_viewcone on a dark surface a pixel is lit
\* exactly when it lies on the inner side of both rays.
C23_FillIsPixelExact ==
    last.op = "fill" =>
        last.lit = InsidePixels(last.surfWidth, last.surfHeight,
                                last.viewconeLeft, last.viewconeRight)

\* C23, the part that holds: fill_surface_within_viewcone lights no pixel
\* that is not on the inner side of both rays.
C23_NoOutsidePixelLit ==
    last.op = "fill" =>
        last.lit \subseteq InsidePixels(last.surfWidth, last.surfHeight,
                                       last.viewconeLeft, last.viewconeRight)

\* C23_NoOutsidePixelLit happens: a fill with the viewpoint inside the
\* surface has lit some pixels and left others dark.
C23_NoOutsideWitness ==
    /\ last.op = "fill"
    /\ last.viewconeLeft[1] = <<BLOCK_SIZE \div 4, BLOCK_SIZE \div 2>>
    /\ last.lit # {}
    /\ Cardinality(last.lit) < (BLOCK_SIZE * BLOCK_SIZE) \div 2

\* ---- C25
\* Point p lies on the segment from start to end.
OnPortal(p, start, end) ==
    /\ ~FracLess(p[1], start[1]) /\ ~FracLess(end[1], p[1])
    /\ ~FracLess(p[2], start[2]) /\ ~FracLess(end[2], p[2])

\* The end the claim gives a ray that misses: for the left ray (isLeft) and
\* the right ray, by orientation and by the side of the origin.
MissEnd(orientation, start, end, origin, isLeft) ==
    IF orientation = VERTI
    THEN IF FracLess(origin[1], start[1])
         THEN (IF isLeft THEN start ELSE end)
         ELSE (IF isLeft THEN end ELSE start)
    ELSE IF FracLess(origin[2], start[2])
         THEN (IF isLeft THEN end ELSE start)
         ELSE (IF isLeft THEN start ELSE end)

RestrictedAsClaimed(orientation, start, end, ray, new, isLeft) ==
    /\ new[1] = ray[1]
    /\ OnPortal(new[2], start, end)
    /\ new[2] = IF ~intersect_line_ray(<<start, end>>, ray).hit
                THEN MissEnd(orientation, start, end, ray[1], isLeft)
                ELSE clamp(intersect_line_ray(<<start, end>>, ray).point,
                           start, end)

\* C25: both rays restrict_viewcone returns keep the origin and end on the
\* portal: at the clamped intersection on a hit, at the portal end the
\* table of the claim names on a miss.
C25_RestrictedRaysOnPortal ==
    last.op = "cone" =>
        /\ ~last.restricted.raised
        /\ RestrictedAsClaimed(last.orientation, last.start, last.end,
                               last.left, last.restricted.left, TRUE)
        /\ RestrictedAsClaimed(last.orientation, last.start, last.end,
                               last.right, last.restricted.right, FALSE)

\* C25 happens: the left ray hit the line outside the portal and was
\* clamped, the right ray missed it.
C25_Witness ==
    /\ last.op = "cone"
    /\ intersect_line_ray(<<last.start, last.end>>, last.left).hit
    /\ ~OnPortal(intersect_line_ray(<<last.start, last.end>>, last.left).point,
                 last.start, last.end)
    /\ ~intersect_line_ray(<<last.start, last.end>>, last.right).hit

\* restrict_viewcone applied again, on the same portal, to the rays the
\* recorded call returned.
RestrictedAgain ==
    restrict_viewcone(last.orientation, last.start, last.end,
                      last.restricted.left, last.restricted.right)

\* The second call returns the rays it was given.
SameAgain(again) ==
    /\ ~again.raised
    /\ again.left = last.restricted.left
    /\ again.right = last.restricted.right

\* The origin of the rays lies on the supporting line of the portal.
OriginOnLine ==
    IF last.orientation = VERTI THEN last.left[1][1] = last.start[1]
    ELSE last.left[1][2] = last.start[2]

\* C24: restrict_viewcone is idempotent on a fixed portal, for every
\* position of the ray origin, the supporting line of the portal included:
\* restricting the restricted rays again returns them unchanged.
C24_RestrictIdempotent ==
    last.op = "cone" /\ ~last.restricted.raised => SameAgain(RestrictedAgain)

\* C24 away from the supporting line: with the origin off the line of the
\* portal, restricting the restricted rays again returns them unchanged.
C24_OffLineIdempotent ==
    last.op = "cone" /\ ~last.restricted.raised /\ ~OriginOnLine
        => SameAgain(RestrictedAgain)

\* C24 away from the line happens: the origin is off the line, the left ray
\* hit the portal's line and the right ray missed it.
C24_OffLineWitness ==
    /\ last.op = "cone" /\ ~last.restricted.raised /\ ~OriginOnLine
    /\ intersect_line_ray(<<last.start, last.end>>, last.left).hit
    /\ ~intersect_line_ray(<<last.start, last.end>>, last.right).hit
    /\ SameAgain(RestrictedAgain)

\* The intersections of the recorded rays with the portal's line.
HitLeft == intersect_line_ray(<<last.start, last.end>>, last.left)
HitRight == intersect_line_ray(<<last.start, last.end>>, last.right)

\* A point with both coordinates truncated toward zero, as int() does.
Truncated(point) == <<Frac(QInt(point[1])), Frac(QInt(point[2]))>>

\* C26 as stated: portal_within_viewcone is true exactly when both rays
\* hit the portal's line and the two clamped intersection points are
\* different points, or exactly one ray hits it.
C26_WithinAsClaimed ==
    last.op = "cone" =>
        /\ ~last.within.raised
        /\ last.within.value =
              IF HitLeft.hit /\ HitRight.hit
              THEN clamp(HitLeft.point, last.start, last.end)
                       # clamp(HitRight.point, last.start, last.end)
              ELSE HitLeft.hit \/ HitRight.hit

\* C26 amended: portal_within_viewcone is true exactly when both rays hit
\* the portal's line and the two clamped intersection points, truncated to
\* integers, are different points, or exactly one ray hits it.
C26_WithinTruncated ==
    last.op = "cone" =>
        /\ ~last.within.raised
        /\ last.within.value =
              IF HitLeft.hit /\ HitRight.hit
              THEN Truncated(clamp(HitLeft.point, last.start, last.end))
                       # Truncated(clamp(HitRight.point, last.start, last.end))
              ELSE HitLeft.hit \/ HitRight.hit

\* C26 amended happens: both rays hit, the clamped points are different
\* points with the same integer part, and the portal is not in the cone.
C26_Witness ==
    /\ last.op = "cone"
    /\ HitLeft.hit /\ HitRight.hit
    /\ clamp(HitLeft.point, last.start, last.end)
           # clamp(HitRight.point, last.start, last.end)
    /\ ~last.within.value

\* The shroudmaps of a leaf in two runs show the same white pixels: they do
\* when they were filled with the same viewcones, and else when the fills
\* lit the same pixels.
SameMask(h, leaf, cones, otherCones) ==
    cones = otherCones \/ lit(h, leaf, cones) = lit(h, leaf, otherCones)

\* Two runs of build_shroud end the same way and, when they return, give
\* the same leaves and the same lit pixels in each leaf's mask.
SameShroud(h, run, other) ==
    /\ run.raised = other.raised
    /\ ~run.raised =>
        /\ DOMAIN run.shroudmapDict = DOMAIN other.shroudmapDict
        /\ \A leaf \in DOMAIN run.shroudmapDict \cap DOMAIN other.shroudmapDict :
              SameMask(h, leaf, run.shroudmapDict[leaf],
                       other.shroudmapDict[leaf])

\* C30: for a fixed tree with its portals generated, a fixed viewPos and a
\* fixed viewcone, build_shroud gives the same result leaves and the same
\* lit pixels in each leaf's mask whatever order the portal sets are
\* iterated in.
C30_OrderIndependent ==
    last.op = "shroud" => SameShroud(heap, last.upwards, last.downwards)
====
